---- MODULE Spec2Model ----
(***************************************************************************)
(* home-lab-exporter: the poll / cache / collect cycle of the UniFi        *)
(* collector (pkg/collector/unifi.go) and of the two variants of the       *)
(* thermal collector (gofish and redfishtool).                             *)
(*                                                                         *)
(* Floating point readings are modelled by integers, Go pointers by the    *)
(* record they point to or by NilPtr, nil and empty slices by <<>>.        *)
(***************************************************************************)
EXTENDS Integers, Sequences, FiniteSets, TLC

\* ------------------------------------------------------------------------
\* Bounds of the model
\* ------------------------------------------------------------------------

\* refresh cycles the UniFi loop (and the thermal loop) may start
MaxCycles == 2

\* concurrent scrape handlers calling Collect on one collector
NumScrapers == 2

\* chassis the Redfish service may list
MaxChassis == 2

Scrapers == 1..NumScrapers

\* ------------------------------------------------------------------------
\* Raw upstream records (github.com/unpoller/unifi/v5), as the client
\* returns them.  A nil pointer is NilPtr.
\* ------------------------------------------------------------------------

NilPtr == [nil |-> TRUE]

FlexInt(v, txt) == [Val |-> v, Txt |-> txt]

FlexBool(b, txt) == [Val |-> b, Txt |-> txt]

Port(name, idx, up, uplink, base, sfpFound, sfpTemp) ==
    [Name |-> name, PortIdx |-> idx, Up |-> up, IsUplink |-> uplink,
     RxPackets |-> base + 1, RxBytes |-> base + 2, RxErrors |-> base + 3,
     RxDropped |-> base + 4, Speed |-> 1000,
     TxPackets |-> base + 5, TxBytes |-> base + 6, TxErrors |-> base + 7,
     TxDropped |-> base + 8,
     SFPFound |-> sfpFound, SFPTemperature |-> sfpTemp]

PortA == Port("Port 1", FlexInt(1, "1"), FlexBool(TRUE, "true"),
              FlexBool(FALSE, "false"), 100, FALSE, 0)

PortSFP == Port("SFP+ 1", FlexInt(2, "2"), FlexBool(TRUE, "true"),
                FlexBool(TRUE, "true"), 200, TRUE, 38)

\* a port without a module, whose record still holds a module temperature
PortWan == Port("WAN", FlexInt(9, "9"), FlexBool(FALSE, "false"),
                FlexBool(TRUE, "true"), 300, FALSE, 33)

PortWanSFP == Port("WAN 2", FlexInt(10, "10"), FlexBool(TRUE, "true"),
                   FlexBool(TRUE, "true"), 400, TRUE, 41)

\* the access point of TestCollectorCollect: CPU 10, Mem 20, no site, no model
RawUAP1 ==
    [Name |-> "uap-1", SiteName |-> "", IP |-> "192.168.1.2", Model |-> "",
     SystemStats |-> [CPU |-> 10, Mem |-> 20]]

\* a second access point reported under the same name and address, whose
\* record carries temperature fields
RawUAP2 ==
    [Name |-> "uap-1", SiteName |-> "", IP |-> "192.168.1.2", Model |-> "",
     SystemStats |-> [CPU |-> -1, Mem |-> -3],
     HasTemperature |-> TRUE, GeneralTemperature |-> 51, Temperatures |-> <<51>>]

RawUSG1 ==
    [Name |-> "gw", SiteName |-> "default", IP |-> "192.168.1.1",
     Model |-> "UGW3", SystemStats |-> [CPU |-> -1, Mem |-> 50]]

\* the gateway at a later time, its record carrying temperature fields and
\* a port table
RawUSG2 ==
    [Name |-> "gw", SiteName |-> "default", IP |-> "192.168.1.1",
     Model |-> "UGW3", SystemStats |-> [CPU |-> 0, Mem |-> -5],
     HasTemperature |-> TRUE, GeneralTemperature |-> 66, Temperatures |-> <<66, 64>>,
     PortTable |-> <<PortWan>>]

RawUSW1 ==
    [Name |-> "sw", SiteName |-> "default", IP |-> "192.168.1.3",
     Model |-> "US8P60", SystemStats |-> [CPU |-> 5, Mem |-> -2],
     HasTemperature |-> TRUE, GeneralTemperature |-> 45,
     Stat |-> [Sw |-> [RxPackets |-> 11, RxBytes |-> 12, RxErrors |-> 13,
                       RxDropped |-> 14, TxPackets |-> 15, TxBytes |-> 16,
                       TxErrors |-> 17, TxDropped |-> 18, Bytes |-> 19]],
     PortTable |-> <<PortA, PortSFP>>]

\* the same switch at a later time, its SFP port gone; its record says it
\* has no temperature and still holds a general temperature
RawUSW2 ==
    [Name |-> "sw", SiteName |-> "default", IP |-> "192.168.1.3",
     Model |-> "US8P60", SystemStats |-> [CPU |-> -4, Mem |-> 8],
     HasTemperature |-> FALSE, GeneralTemperature |-> 47,
     Stat |-> [Sw |-> [RxPackets |-> 21, RxBytes |-> 22, RxErrors |-> 23,
                       RxDropped |-> 24, TxPackets |-> 25, TxBytes |-> 26,
                       TxErrors |-> 27, TxDropped |-> 28, Bytes |-> 29]],
     PortTable |-> <<PortA>>]

RawUDM1 ==
    [Name |-> "udm", SiteName |-> "default", IP |-> "192.168.1.254",
     Model |-> "UDMPRO", SystemStats |-> [CPU |-> 30, Mem |-> 60],
     HasTemperature |-> TRUE, Temperatures |-> <<61, 52>>,
     PortTable |-> <<PortWan, PortWanSFP>>]

RawUDM2 ==
    [Name |-> "udm-2", SiteName |-> "default", IP |-> "192.168.1.253",
     Model |-> "UDM", SystemStats |-> [CPU |-> -7, Mem |-> -1],
     HasTemperature |-> FALSE, Temperatures |-> <<>>,
     PortTable |-> <<>>]

Devices(udms, usgs, usws, uaps) ==
    [UDMs |-> udms, USGs |-> usgs, USWs |-> usws, UAPs |-> uaps]

\* what GetDevices may answer without an error
DeviceResponses ==
    { Devices(<<>>, <<>>, <<>>, <<>>),
      Devices(<<>>, <<>>, <<>>, <<RawUAP1>>),
      Devices(<<>>, <<NilPtr, RawUSG1>>, <<>>, <<RawUAP1, NilPtr, RawUAP2>>),
      Devices(<<RawUDM1>>, <<>>, <<RawUSW1, NilPtr>>, <<RawUAP1>>),
      Devices(<<RawUDM2, RawUDM1>>, <<RawUSG2>>, <<RawUSW2>>, <<NilPtr>>) }

RawSite1 == [Name |-> "default", ID |-> "site-id"]

\* what GetSites may answer without an error
SiteResponses == { <<NilPtr, RawSite1>> }

RawClient1 == [Name |-> "client1", IP |-> "192.168.1.100"]

\* what GetClients may answer without an error
ClientResponses == { <<RawClient1, NilPtr>> }

\* ------------------------------------------------------------------------
\* Device adapters (type UnifiDevice and its four implementations)
\* ------------------------------------------------------------------------

udmAdapter(d) == [kind |-> "udm", dev |-> d]

usgAdapter(d) == [kind |-> "usg", dev |-> d]

uswAdapter(d) == [kind |-> "usw", dev |-> d]

uapAdapter(d) == [kind |-> "uap", dev |-> d]

udmHasTemperature(d) == d.HasTemperature

udmTemperature(d) ==
    IF Len(d.Temperatures) > 0 THEN d.Temperatures[1] ELSE 0

udmCPUUsage(d) ==
    IF d.SystemStats.CPU < 0 THEN 0 ELSE d.SystemStats.CPU

udmMEMUsage(d) ==
    IF d.SystemStats.Mem < 0 THEN 0 ELSE d.SystemStats.Mem

usgHasTemperature(d) == FALSE

\* a Temperature that reads the record, as the UDM adapter does
usgReportedTemperature(d) ==
    IF "Temperatures" \in DOMAIN d /\ Len(d.Temperatures) > 0
    THEN d.Temperatures[1] ELSE 0

usgTemperature(d) == 0

usgCPUUsage(d) ==
    IF d.SystemStats.CPU < 0 THEN 0 ELSE d.SystemStats.CPU

usgMEMUsage(d) ==
    IF d.SystemStats.Mem < 0 THEN 0 ELSE d.SystemStats.Mem

uswHasTemperature(d) == d.HasTemperature

uswTemperature(d) == d.GeneralTemperature

uswCPUUsage(d) ==
    IF d.SystemStats.CPU < 0 THEN 0 ELSE d.SystemStats.CPU

uswMEMUsage(d) ==
    IF d.SystemStats.Mem < 0 THEN 0 ELSE d.SystemStats.Mem

uapHasTemperature(d) == FALSE

uapTemperature(d) == 0

\* CPUUsage without the test for a negative reading
uapRawCPU(d) == d.SystemStats.CPU

uapCPUUsage(d) ==
    IF d.SystemStats.CPU < 0 THEN 0 ELSE d.SystemStats.CPU

uapMEMUsage(d) ==
    IF d.SystemStats.Mem < 0 THEN 0 ELSE d.SystemStats.Mem

\* dynamic dispatch on the adapter behind the UnifiDevice interface
Name(a) == a.dev.Name

Site(a) == a.dev.SiteName

IP(a) == a.dev.IP

Model(a) == a.dev.Model

Type(a) ==
    CASE a.kind = "udm" -> "UDM"
      [] a.kind = "usg" -> "USG"
      [] a.kind = "usw" -> "USW"
      [] a.kind = "uap" -> "UAP"

HasTemperature(a) ==
    CASE a.kind = "udm" -> udmHasTemperature(a.dev)
      [] a.kind = "usg" -> usgHasTemperature(a.dev)
      [] a.kind = "usw" -> uswHasTemperature(a.dev)
      [] a.kind = "uap" -> uapHasTemperature(a.dev)

Temperature(a) ==
    CASE a.kind = "udm" -> udmTemperature(a.dev)
      [] a.kind = "usg" -> usgTemperature(a.dev)
      [] a.kind = "usw" -> uswTemperature(a.dev)
      [] a.kind = "uap" -> uapTemperature(a.dev)

CPUUsage(a) ==
    CASE a.kind = "udm" -> udmCPUUsage(a.dev)
      [] a.kind = "usg" -> usgCPUUsage(a.dev)
      [] a.kind = "usw" -> uswCPUUsage(a.dev)
      [] a.kind = "uap" -> uapCPUUsage(a.dev)

MEMUsage(a) ==
    CASE a.kind = "udm" -> udmMEMUsage(a.dev)
      [] a.kind = "usg" -> usgMEMUsage(a.dev)
      [] a.kind = "usw" -> uswMEMUsage(a.dev)
      [] a.kind = "uap" -> uapMEMUsage(a.dev)

\* the four loops of UnifiDevices.All, each appending one family's adapters
AllUDMs(all, list) == all \o [i \in 1..Len(list) |-> udmAdapter(list[i])]

AllUSGs(all, list) == all \o [i \in 1..Len(list) |-> usgAdapter(list[i])]

AllUSWs(all, list) == all \o [i \in 1..Len(list) |-> uswAdapter(list[i])]

AllUAPs(all, list) == all \o [i \in 1..Len(list) |-> uapAdapter(list[i])]

\* UnifiDevices.All: UDMs, then USGs, then USWs, then UAPs
All(d) == AllUAPs(AllUSWs(AllUSGs(AllUDMs(<<>>, d.UDMs), d.USGs), d.USWs), d.UAPs)

\* ------------------------------------------------------------------------
\* Instruments (prometheus GaugeVec / CounterVec): a vector maps the label
\* tuples it holds to their values
\* ------------------------------------------------------------------------

DeviceInstruments == {"deviceTemp", "deviceCPU", "deviceMem"}

SwitchInstruments ==
    {"swRXPackets", "swRXBytes", "swRXErrors", "swRXDropped", "swTXPackets",
     "swTXBytes", "swTXErrors", "swTXDropped", "swBytes"}

PortInstruments ==
    {"pRXPackets", "pRXBytes", "pRXErrors", "pRXDropped", "pSpeed",
     "pTXPackets", "pTXBytes", "pTXErrors", "pTXDropped", "pSFPTemp"}

\* the instrument fields of struct UniFiCollector
Instruments == DeviceInstruments \cup SwitchInstruments \cup PortInstruments

EmptyVec == [l \in {} |-> 0]

\* GaugeVec.WithLabelValues(l...).Set(x)
GaugeSet(v, inst, l, x) ==
    [v EXCEPT ![inst] = [k \in DOMAIN @ \cup {l} |-> IF k = l THEN x ELSE @[k]]]

\* CounterVec.WithLabelValues(l...).Add(x): a fresh child starts at 0
CounterAdd(v, inst, l, x) ==
    [v EXCEPT ![inst] =
        [k \in DOMAIN @ \cup {l} |->
            IF k = l THEN (IF l \in DOMAIN @ THEN @[l] ELSE 0) + x ELSE @[k]]]

\* ------------------------------------------------------------------------
\* UniFiCollector.Collect: the body between Lock and Unlock
\* ------------------------------------------------------------------------

\* resetAll, in the order of its Reset calls
ResetList ==
    <<"deviceTemp", "deviceCPU", "deviceMem",
      "swRXPackets", "swRXBytes", "swRXErrors", "swRXDropped", "swTXPackets",
      "swTXBytes", "swTXErrors", "swTXDropped", "swBytes",
      "pRXPackets", "pRXBytes", "pRXErrors", "pRXDropped", "pSpeed",
      "pTXPackets", "pTXBytes", "pTXErrors", "pTXDropped", "pSFPTemp">>

\* the closing Collect(ch) calls with that of pSFPTemp left out
CollectListWithoutSFPTemp ==
    <<"deviceTemp", "deviceCPU", "deviceMem",
      "swRXPackets", "swRXBytes", "swRXErrors", "swRXDropped", "swTXPackets",
      "swTXBytes", "swTXErrors", "swTXDropped", "swBytes",
      "pRXPackets", "pRXBytes", "pRXErrors", "pRXDropped", "pSpeed",
      "pTXPackets", "pTXBytes", "pTXErrors", "pTXDropped">>

\* the Collect(ch) calls that end UniFiCollector.Collect, in order
CollectList ==
    <<"deviceTemp", "deviceCPU", "deviceMem",
      "swRXPackets", "swRXBytes", "swRXErrors", "swRXDropped", "swTXPackets",
      "swTXBytes", "swTXErrors", "swTXDropped", "swBytes",
      "pRXPackets", "pRXBytes", "pRXErrors", "pRXDropped", "pSpeed",
      "pTXPackets", "pTXBytes", "pTXErrors", "pTXDropped", "pSFPTemp">>

\* UniFiCollector.Describe, in the order of its Describe calls
DescribeList ==
    <<"deviceTemp", "deviceCPU", "deviceMem",
      "swRXPackets", "swRXBytes", "swRXErrors", "swRXDropped", "swTXPackets",
      "swTXBytes", "swTXErrors", "swTXDropped", "swBytes",
      "pRXPackets", "pRXBytes", "pRXErrors", "pRXDropped", "pSpeed",
      "pTXPackets", "pTXBytes", "pTXErrors", "pTXDropped", "pSFPTemp">>

Range(seq) == {seq[i] : i \in DOMAIN seq}

\* a Collect that does not reset
resetNothing(v) == v

\* resetAll with the Reset of deviceTemp, deviceCPU and deviceMem left out
resetAllButDevice(v) ==
    [i \in DOMAIN v |->
        IF i \in Range(ResetList) \ DeviceInstruments THEN EmptyVec ELSE v[i]]

\* resetAll with the Reset of the gauges only, the counters left as they are
resetGaugesOnly(v) ==
    [i \in DOMAIN v |->
        IF i \in DeviceInstruments \cup {"pSpeed", "pSFPTemp"} THEN EmptyVec ELSE v[i]]

\* resetAll with the Reset of the port instruments left out
resetAllButPorts(v) ==
    [i \in DOMAIN v |->
        IF i \in Range(ResetList) \ PortInstruments THEN EmptyVec ELSE v[i]]

resetAll(v) ==
    [i \in DOMAIN v |-> IF i \in Range(ResetList) THEN EmptyVec ELSE v[i]]

\* labelValues := []string{dev.Type(), dev.Site(), dev.IP(), dev.Name()}
labelValues(a) == <<Type(a), Site(a), IP(a), Name(a)>>

\* the device instruments labelled like the switch instruments, by Type
deviceLabelsByType(a) == <<Type(a), Site(a), IP(a), Name(a)>>

\* the label values of deviceTemp, deviceCPU and deviceMem
deviceLabels(a) == <<Model(a), Site(a), IP(a), Name(a)>>

\* portLabels := append(labelValues, port.Name, port.PortIdx.String(), ...)
portLabels(lv, port) ==
    lv \o <<port.Name, port.PortIdx.Txt, port.Up.Txt, port.IsUplink.Txt>>

\* a loop body that sets pSFPTemp whether or not a module was found
PopulatePortAlwaysSFP(v, lv, port) ==
    LET pl == portLabels(lv, port)
        v1 == CounterAdd(v, "pRXPackets", pl, port.RxPackets)
        v2 == CounterAdd(v1, "pRXBytes", pl, port.RxBytes)
        v3 == CounterAdd(v2, "pRXErrors", pl, port.RxErrors)
        v4 == CounterAdd(v3, "pRXDropped", pl, port.RxDropped)
        v5 == GaugeSet(v4, "pSpeed", pl, port.Speed)
        v6 == CounterAdd(v5, "pTXPackets", pl, port.TxPackets)
        v7 == CounterAdd(v6, "pTXBytes", pl, port.TxBytes)
        v8 == CounterAdd(v7, "pTXErrors", pl, port.TxErrors)
        v9 == CounterAdd(v8, "pTXDropped", pl, port.TxDropped)
    IN  GaugeSet(v9, "pSFPTemp", pl, port.SFPTemperature)

\* the body of the loop over a PortTable
PopulatePort(v, lv, port) ==
    LET pl == portLabels(lv, port)
        v1 == CounterAdd(v, "pRXPackets", pl, port.RxPackets)
        v2 == CounterAdd(v1, "pRXBytes", pl, port.RxBytes)
        v3 == CounterAdd(v2, "pRXErrors", pl, port.RxErrors)
        v4 == CounterAdd(v3, "pRXDropped", pl, port.RxDropped)
        v5 == GaugeSet(v4, "pSpeed", pl, port.Speed)
        v6 == CounterAdd(v5, "pTXPackets", pl, port.TxPackets)
        v7 == CounterAdd(v6, "pTXBytes", pl, port.TxBytes)
        v8 == CounterAdd(v7, "pTXErrors", pl, port.TxErrors)
        v9 == CounterAdd(v8, "pTXDropped", pl, port.TxDropped)
    IN  IF port.SFPFound
        THEN GaugeSet(v9, "pSFPTemp", pl, port.SFPTemperature)
        ELSE v9

RECURSIVE PopulatePorts(_, _, _)
PopulatePorts(v, lv, ports) ==
    IF ports = <<>> THEN v
    ELSE PopulatePorts(PopulatePort(v, lv, Head(ports)), lv, Tail(ports))

\* if usw, ok := dev.(uswAdapter); ok { ... }
PopulateSwitch(v, lv, usw) ==
    LET stat == usw.Stat.Sw
        v1 == CounterAdd(v, "swRXPackets", lv, stat.RxPackets)
        v2 == CounterAdd(v1, "swRXBytes", lv, stat.RxBytes)
        v3 == CounterAdd(v2, "swRXErrors", lv, stat.RxErrors)
        v4 == CounterAdd(v3, "swRXDropped", lv, stat.RxDropped)
        v5 == CounterAdd(v4, "swTXPackets", lv, stat.TxPackets)
        v6 == CounterAdd(v5, "swTXBytes", lv, stat.TxBytes)
        v7 == CounterAdd(v6, "swTXErrors", lv, stat.TxErrors)
        v8 == CounterAdd(v7, "swTXDropped", lv, stat.TxDropped)
        v9 == CounterAdd(v8, "swBytes", lv, stat.Bytes)
    IN  PopulatePorts(v9, lv, usw.PortTable)

\* a loop body that sets deviceTemp only when the device reports a temperature
PopulateDeviceIfTemperature(v, a) ==
    LET lv == labelValues(a)
        v1 == IF HasTemperature(a)
              THEN GaugeSet(v, "deviceTemp", deviceLabels(a), Temperature(a))
              ELSE v
        v2 == GaugeSet(v1, "deviceCPU", deviceLabels(a), CPUUsage(a))
        v3 == GaugeSet(v2, "deviceMem", deviceLabels(a), MEMUsage(a))
        v4 == IF a.kind = "usw" THEN PopulateSwitch(v3, lv, a.dev) ELSE v3
    IN  IF a.kind = "udm" THEN PopulatePorts(v4, lv, a.dev.PortTable) ELSE v4

\* a loop body that takes the ports of any device whose record has a port table
PopulateDevicePortsOfAny(v, a) ==
    LET lv == labelValues(a)
        v1 == GaugeSet(v, "deviceTemp", deviceLabels(a), Temperature(a))
        v2 == GaugeSet(v1, "deviceCPU", deviceLabels(a), CPUUsage(a))
        v3 == GaugeSet(v2, "deviceMem", deviceLabels(a), MEMUsage(a))
        v4 == IF a.kind = "usw" THEN PopulateSwitch(v3, lv, a.dev) ELSE v3
    IN  IF a.kind # "usw" /\ "PortTable" \in DOMAIN a.dev
        THEN PopulatePorts(v4, lv, a.dev.PortTable) ELSE v4

\* the body of the loop over c.cache.Devices.All()
PopulateDevice(v, a) ==
    LET lv == labelValues(a)
        v1 == GaugeSet(v, "deviceTemp", deviceLabels(a), Temperature(a))
        v2 == GaugeSet(v1, "deviceCPU", deviceLabels(a), CPUUsage(a))
        v3 == GaugeSet(v2, "deviceMem", deviceLabels(a), MEMUsage(a))
        v4 == IF a.kind = "usw" THEN PopulateSwitch(v3, lv, a.dev) ELSE v3
    IN  IF a.kind = "udm" THEN PopulatePorts(v4, lv, a.dev.PortTable) ELSE v4

RECURSIVE Populate(_, _)
Populate(v, all) ==
    IF all = <<>> THEN v
    ELSE Populate(PopulateDevice(v, Head(all)), Tail(all))

\* what the closing Collect(ch) calls send to the channel
Emit(v) == [i \in Range(CollectList) |-> v[i]]

\* the series a scrape of a cache holding the devices d is to emit
SeriesOf(d) == Emit(Populate([i \in Instruments |-> EmptyVec], All(d)))

\* ------------------------------------------------------------------------
\* State of one UniFiCollector and of the goroutines that use it
\* ------------------------------------------------------------------------

VARIABLES
    cache,       \* c.cache: the UnifiData the collector serves
    mutex,       \* c.mutex: Unlocked, or the goroutine that holds it
    vec,         \* the contents of the 22 instruments
    vgen,        \* the cache generation the instruments were last filled from
    tickerC,     \* ticker.C of run: TRUE when a tick is buffered
    fpc,         \* where the goroutine of run / fetch stands
    sites,       \* fetch: sites, as GetSites returned it
    clients,     \* fetch: clients, as GetClients returned it
    devices,     \* fetch: devices, as GetDevices returned it
    snapshot,    \* fetch: the UnifiData built from the three results
    cycles,      \* fetch calls started by run
    waits,       \* ticks run has received from ticker.C
    failedCalls, \* the client calls of the current cycle that returned an error
    calls,       \* the client calls fetch has made in the current cycle, in order
    ferr,        \* run: the error fetch returned, "nil" for none
    gen,         \* cache writes completed so far
    spc,         \* where each scrape handler stands in Collect
    sall,        \* Collect: the slice c.cache.Devices.All() being built
    sgens,       \* Collect: the cache generations its reads of the cache met
    slockgen,    \* Collect: gen when it acquired the mutex
    sbefore,     \* Collect: the instruments as the call found them
    sbeforegen,  \* Collect: the generation they had been filled from
    semitted     \* Collect: what the call has sent to the channel

uvars == <<cache, mutex, vec, vgen, tickerC, fpc, sites, clients, devices, snapshot, cycles, waits,
           failedCalls, calls, ferr, gen, spc, sall, sgens, slockgen, sbefore, sbeforegen,
           semitted>>

\* sync.Mutex: nobody holds it
Unlocked == -1

\* the goroutine started by "go col.run()"
RefreshLoop == 0

\* a cache that starts with a device in it
PlaceholderUnifiData ==
    [Sites |-> <<>>, Devices |-> Devices(<<>>, <<>>, <<>>, <<RawUAP1>>),
     Clients |-> <<>>]

\* the zero value of UnifiData
ZeroUnifiData ==
    [Sites |-> <<>>, Devices |-> Devices(<<>>, <<>>, <<>>, <<>>), Clients |-> <<>>]

NoEmission == [i \in {} |-> EmptyVec]

\* a Lock that never waits
LockNeverWaits(m) == TRUE

\* a Lock that waits for the refresh loop only, not for a scrape handler
LockIgnoresScrapers(m) == m # RefreshLoop

\* Mutex.Lock returns only when nobody holds the mutex
CanLock(m) == m = Unlocked

\* a loop that puts each non-nil entry in front of those it has kept
RECURSIVE SkipNilReversed(_)
SkipNilReversed(list) ==
    IF list = <<>> THEN <<>>
    ELSE IF Head(list) = NilPtr THEN SkipNilReversed(Tail(list))
    ELSE SkipNilReversed(Tail(list)) \o <<Head(list)>>

\* for _, x := range list { if x != nil { vals = append(vals, *x) } }
RECURSIVE SkipNil(_)
SkipNil(list) ==
    IF list = <<>> THEN <<>>
    ELSE IF Head(list) = NilPtr THEN SkipNil(Tail(list))
    ELSE <<Head(list)>> \o SkipNil(Tail(list))

\* the UnifiData that fetch assembles from the results of the three calls
BuildUnifiData(s, c, d) ==
    [Sites |-> SkipNil(s),
     Devices |-> Devices(SkipNil(d.UDMs), SkipNil(d.USGs),
                         SkipNil(d.USWs), SkipNil(d.UAPs)),
     Clients |-> SkipNil(c)]

UniFiInit ==
    /\ cache = ZeroUnifiData
    /\ mutex = Unlocked
    /\ vec = [i \in Instruments |-> EmptyVec]
    /\ vgen = -1
    /\ tickerC = FALSE
    /\ fpc = "probe"
    /\ sites = <<>>
    /\ clients = <<>>
    /\ devices = Devices(<<>>, <<>>, <<>>, <<>>)
    /\ snapshot = ZeroUnifiData
    /\ cycles = 0
    /\ waits = 0
    /\ failedCalls = {}
    /\ calls = <<>>
    /\ ferr = "pending"
    /\ gen = 0
    /\ spc = [s \in Scrapers |-> "idle"]
    /\ sall = [s \in Scrapers |-> <<>>]
    /\ sgens = [s \in Scrapers |-> {}]
    /\ slockgen = [s \in Scrapers |-> 0]
    /\ sbefore = [s \in Scrapers |-> NoEmission]
    /\ sbeforegen = [s \in Scrapers |-> -1]
    /\ semitted = [s \in Scrapers |-> NoEmission]

\* a nil pointer dereference in the goroutine of run ends the process
Crashed == fpc = "panic"

ScraperVars == <<spc, sall, sgens, slockgen, sbefore, sbeforegen, semitted>>

FetchLocals == <<sites, clients, devices, snapshot>>

\* ---- run and fetch ----

\* run calls fetch; fetch: if _, err := c.client.GetSites(); err != nil
FetchProbe ==
    /\ fpc = "probe"
    /\ cycles < MaxCycles
    /\ cycles' = cycles + 1
    /\ waits' = waits
    /\ \E ok \in BOOLEAN :
        /\ fpc' = IF ok THEN "sites" ELSE "login"
        /\ failedCalls' = IF ok THEN {} ELSE {"probe"}
    /\ calls' = <<"GetSites">>
    /\ ferr' = "pending"
    /\ sites' = <<>>
    /\ clients' = <<>>
    /\ devices' = Devices(<<>>, <<>>, <<>>, <<>>)
    /\ snapshot' = ZeroUnifiData
    /\ UNCHANGED <<cache, mutex, vec, vgen, tickerC, gen, ScraperVars>>

\* a fetch that goes on to the data calls whatever Login returned
FetchLoginGoesOn ==
    /\ fpc = "login"
    /\ \E ok \in BOOLEAN :
        /\ fpc' = "sites"
        /\ failedCalls' = IF ok THEN failedCalls ELSE failedCalls \cup {"login"}
        /\ ferr' = IF ok THEN ferr ELSE "login error"
    /\ calls' = Append(calls, "Login")
    /\ UNCHANGED <<cache, mutex, vec, vgen, tickerC, FetchLocals, cycles, waits, gen, ScraperVars>>

\* a fetch that, once logged in, leaves the data calls to the next cycle
FetchLoginThenWaits ==
    /\ fpc = "login"
    /\ \E ok \in BOOLEAN :
        /\ fpc' = "tick"
        /\ failedCalls' = IF ok THEN failedCalls ELSE failedCalls \cup {"login"}
        /\ ferr' = IF ok THEN ferr ELSE "login error"
    /\ calls' = Append(calls, "Login")
    /\ UNCHANGED <<cache, mutex, vec, vgen, tickerC, FetchLocals, cycles, waits, gen, ScraperVars>>

\* if err := c.client.Login(); err != nil { log; return err }
FetchLogin ==
    /\ fpc = "login"
    /\ \E ok \in BOOLEAN :
        /\ fpc' = IF ok THEN "sites" ELSE "tick"
        /\ failedCalls' = IF ok THEN failedCalls ELSE failedCalls \cup {"login"}
        /\ ferr' = IF ok THEN ferr ELSE "login error"
    /\ calls' = Append(calls, "Login")
    /\ UNCHANGED <<cache, mutex, vec, vgen, tickerC, FetchLocals, cycles, waits, gen, ScraperVars>>

\* sites, _ := c.client.GetSites()
FetchGetSites ==
    /\ fpc = "sites"
    /\ \/ \E r \in SiteResponses :
            /\ sites' = r
            /\ failedCalls' = failedCalls
       \/ /\ sites' = <<>>
          /\ failedCalls' = failedCalls \cup {"sites"}
    /\ fpc' = "clients"
    /\ calls' = Append(calls, "GetSites")
    /\ ferr' = ferr
    /\ UNCHANGED <<cache, mutex, vec, vgen, tickerC, clients, devices, snapshot, cycles, waits, gen,
                   ScraperVars>>

\* clients, _ := c.client.GetClients(sites)
FetchGetClients ==
    /\ fpc = "clients"
    /\ \/ \E r \in ClientResponses :
            /\ clients' = r
            /\ failedCalls' = failedCalls
       \/ /\ clients' = <<>>
          /\ failedCalls' = failedCalls \cup {"clients"}
    /\ fpc' = "devices"
    /\ calls' = Append(calls, "GetClients")
    /\ ferr' = ferr
    /\ UNCHANGED <<cache, mutex, vec, vgen, tickerC, sites, devices, snapshot, cycles, waits, gen,
                   ScraperVars>>

\* devices, _ := c.client.GetDevices(sites), then the loops that copy the
\* non-nil entries; devices.UDMs dereferences the pointer the call returned
FetchGetDevices ==
    /\ fpc = "devices"
    /\ \/ \E r \in DeviceResponses :
            /\ devices' = r
            /\ snapshot' = BuildUnifiData(sites, clients, r)
            /\ failedCalls' = failedCalls
            /\ fpc' = "lock"
       \/ \E err \in BOOLEAN :
            \* a nil *unifi.Devices, with an error or without
            /\ devices' = NilPtr
            /\ snapshot' = snapshot
            /\ failedCalls' = IF err THEN failedCalls \cup {"devices"} ELSE failedCalls
            /\ fpc' = "panic"
    /\ calls' = Append(calls, "GetDevices")
    /\ ferr' = ferr
    /\ UNCHANGED <<cache, mutex, vec, vgen, tickerC, sites, clients, cycles, waits, gen, ScraperVars>>

\* c.mutex.Lock()
FetchLock ==
    /\ fpc = "lock"
    /\ CanLock(mutex)
    /\ mutex' = RefreshLoop
    /\ fpc' = "write"
    /\ UNCHANGED <<cache, vec, vgen, tickerC, FetchLocals, cycles, waits, failedCalls, calls, ferr, gen, ScraperVars>>

\* c.cache = UnifiData{...}; return nil, which runs the deferred Unlock
FetchWrite ==
    /\ fpc = "write"
    /\ cache' = snapshot
    /\ gen' = gen + 1
    /\ mutex' = Unlocked
    /\ fpc' = "tick"
    /\ ferr' = "nil"
    /\ UNCHANGED <<vec, vgen, tickerC, FetchLocals, cycles, waits, failedCalls, calls, ScraperVars>>

\* a run that starts the next fetch without waiting for a tick
RunRetriesAtOnce ==
    /\ fpc = "tick"
    /\ fpc' = "probe"
    /\ UNCHANGED <<cache, mutex, vec, vgen, tickerC, FetchLocals, cycles, waits,
                   failedCalls, calls, ferr, gen, ScraperVars>>

\* run: <-ticker.C
RunWait ==
    /\ fpc = "tick"
    /\ tickerC
    /\ tickerC' = FALSE
    /\ fpc' = "probe"
    /\ waits' = waits + 1
    /\ UNCHANGED <<cache, mutex, vec, vgen, FetchLocals, cycles, failedCalls, calls, ferr,
                   gen, ScraperVars>>

\* the ticker fires: the tick is buffered in ticker.C (capacity 1)
Tick ==
    /\ ~Crashed
    /\ ~tickerC
    /\ tickerC' = TRUE
    /\ UNCHANGED <<cache, mutex, vec, vgen, fpc, FetchLocals, cycles, waits, failedCalls, calls, ferr, gen, ScraperVars>>

\* ---- UniFiCollector.Collect, called by scrape handler s ----

FetchVars ==
    <<fpc, sites, clients, devices, snapshot, cycles, waits, failedCalls, calls, ferr,
      gen>>

\* c.mutex.Lock()
CollectLock(s) ==
    /\ ~Crashed
    /\ spc[s] = "idle"
    /\ CanLock(mutex)
    /\ mutex' = s
    /\ spc' = [spc EXCEPT ![s] = "reset"]
    /\ slockgen' = [slockgen EXCEPT ![s] = gen]
    /\ sbefore' = [sbefore EXCEPT ![s] = Emit(vec)]
    /\ sbeforegen' = [sbeforegen EXCEPT ![s] = vgen]
    /\ UNCHANGED <<cache, vec, vgen, tickerC, FetchVars, sall, sgens, semitted>>

\* resetAll(c)
CollectReset(s) ==
    /\ ~Crashed
    /\ spc[s] = "reset"
    /\ vec' = resetAll(vec)
    /\ vgen' = vgen
    /\ spc' = [spc EXCEPT ![s] = "udms"]
    /\ UNCHANGED <<cache, mutex, tickerC, FetchVars, sall, sgens, slockgen, sbefore, sbeforegen, semitted>>

\* c.cache.Devices.All(): for _, dev := range d.UDMs
CollectAllUDMs(s) ==
    /\ ~Crashed
    /\ spc[s] = "udms"
    /\ sall' = [sall EXCEPT ![s] = AllUDMs(<<>>, cache.Devices.UDMs)]
    /\ sgens' = [sgens EXCEPT ![s] = {gen}]
    /\ spc' = [spc EXCEPT ![s] = "usgs"]
    /\ UNCHANGED <<cache, mutex, vec, vgen, tickerC, FetchVars, slockgen, sbefore, sbeforegen, semitted>>

\* for _, dev := range d.USGs
CollectAllUSGs(s) ==
    /\ ~Crashed
    /\ spc[s] = "usgs"
    /\ sall' = [sall EXCEPT ![s] = AllUSGs(@, cache.Devices.USGs)]
    /\ sgens' = [sgens EXCEPT ![s] = @ \cup {gen}]
    /\ spc' = [spc EXCEPT ![s] = "usws"]
    /\ UNCHANGED <<cache, mutex, vec, vgen, tickerC, FetchVars, slockgen, sbefore, sbeforegen, semitted>>

\* for _, dev := range d.USWs
CollectAllUSWs(s) ==
    /\ ~Crashed
    /\ spc[s] = "usws"
    /\ sall' = [sall EXCEPT ![s] = AllUSWs(@, cache.Devices.USWs)]
    /\ sgens' = [sgens EXCEPT ![s] = @ \cup {gen}]
    /\ spc' = [spc EXCEPT ![s] = "uaps"]
    /\ UNCHANGED <<cache, mutex, vec, vgen, tickerC, FetchVars, slockgen, sbefore, sbeforegen, semitted>>

\* for _, dev := range d.UAPs
CollectAllUAPs(s) ==
    /\ ~Crashed
    /\ spc[s] = "uaps"
    /\ sall' = [sall EXCEPT ![s] = AllUAPs(@, cache.Devices.UAPs)]
    /\ sgens' = [sgens EXCEPT ![s] = @ \cup {gen}]
    /\ spc' = [spc EXCEPT ![s] = "populate"]
    /\ UNCHANGED <<cache, mutex, vec, vgen, tickerC, FetchVars, slockgen, sbefore, sbeforegen, semitted>>

\* the loop over the devices
CollectPopulate(s) ==
    /\ ~Crashed
    /\ spc[s] = "populate"
    /\ vec' = Populate(vec, sall[s])
    /\ vgen' = gen
    /\ spc' = [spc EXCEPT ![s] = "emit"]
    /\ UNCHANGED <<cache, mutex, tickerC, FetchVars, sall, sgens, slockgen, sbefore, sbeforegen, semitted>>

\* c.deviceTemp.Collect(ch) ... c.pSFPTemp.Collect(ch)
CollectEmit(s) ==
    /\ ~Crashed
    /\ spc[s] = "emit"
    /\ semitted' = [semitted EXCEPT ![s] = Emit(vec)]
    /\ spc' = [spc EXCEPT ![s] = "emitted"]
    /\ UNCHANGED <<cache, mutex, vec, vgen, tickerC, FetchVars, sall, sgens, slockgen, sbefore, sbeforegen>>

\* Collect returns: the deferred c.mutex.Unlock()
CollectReturn(s) ==
    /\ ~Crashed
    /\ spc[s] = "emitted"
    /\ mutex' = Unlocked
    /\ spc' = [spc EXCEPT ![s] = "idle"]
    /\ sall' = [sall EXCEPT ![s] = <<>>]
    /\ sgens' = [sgens EXCEPT ![s] = {}]
    /\ slockgen' = [slockgen EXCEPT ![s] = 0]
    /\ sbefore' = [sbefore EXCEPT ![s] = NoEmission]
    /\ sbeforegen' = [sbeforegen EXCEPT ![s] = -1]
    /\ semitted' = [semitted EXCEPT ![s] = NoEmission]
    /\ UNCHANGED <<cache, vec, vgen, tickerC, FetchVars>>

\* ------------------------------------------------------------------------
\* ThermalCollector: the gofish variant and the redfishtool variant
\* ------------------------------------------------------------------------

VARIABLES
    tvariant,   \* which of the two source files of ThermalCollector is built
    tcache,     \* c.cache: the ThermalData the collector serves
    tmutex,     \* c.mutex
    tvec,       \* the contents of temperature and fanSpeed
    ttickerC,   \* ticker.C of run
    tpc,        \* where the goroutine of run / fetch stands
    tchass,     \* gofish fetch: the chassis the loop has still to visit
    toutput,    \* redfishtool fetch: the output of the command
    tdata,      \* fetch: the ThermalData to be stored
    tcycles,    \* fetch calls started by run
    tcalls,     \* the upstream calls and the Lock of the current fetch, in order
    tdone,      \* the chassis the current fetch has built a ThermalData from, in order
    twaits,     \* ticks run has received from ticker.C
    tfailed,    \* a call the current fetch cannot do without reported an error
    tbefore,    \* c.cache as it was when the current fetch began
    tgen,       \* cache writes completed so far
    tspc,       \* where each scrape handler stands in Collect
    temitted    \* Collect: what the call has sent to the channel

tvars == <<tvariant, tcache, tmutex, tvec, ttickerC, tpc, tchass, toutput,
           tdata, tcycles, tcalls, tdone, twaits, tfailed, tbefore, tgen, tspc, temitted>>

\* the state of func main
VARIABLES
    mpc,        \* where main stands
    cfg,        \* the Config initConfig returned
    mexit,      \* why main ended the process, "" while it runs
    registered  \* the collectors handed to prometheus.MustRegister

mvars == <<mpc, cfg, mexit, registered>>

vars == <<uvars, tvars, mvars>>

\* c.target
Target == "bmc.mgmt.example.com"

\* the zero value of ThermalData
ZeroThermalData == [Temperatures |-> <<>>, Fans |-> <<>>]

ThermalInstruments == {"temperature", "fanSpeed"}

\* ThermalCollector.Describe, in the order of its Describe calls
ThermalDescribeList == <<"temperature", "fanSpeed">>

\* the Reset() calls of ThermalCollector.Collect, in order
ThermalResetList == <<"temperature", "fanSpeed">>

\* the Collect(ch) calls that end ThermalCollector.Collect, in order
ThermalCollectList == <<"temperature", "fanSpeed">>

\* what ch.Thermal() of chassis i answers when the query succeeds
\* (redfish.Thermal: readings with a Name, a value and a Status.Health)
ThermalOf(i) ==
    [Temperatures |->
        <<[Name |-> "CPU", ReadingCelsius |-> 40 + i, Status |-> [Health |-> "OK"]],
          [Name |-> "Inlet", ReadingCelsius |-> 20 + i,
           Status |-> [Health |-> IF i % 2 = 0 THEN "Warning" ELSE "OK"]]>>,
     Fans |->
        IF i % 2 = 0 THEN <<>>
        ELSE <<[Name |-> "Fan1", Reading |-> 1000 * i, Status |-> [Health |-> "OK"]]>>]

\* the lists service.Chassis() may answer: up to MaxChassis chassis, each with
\* or without a link to a Thermal resource
ChassisLists ==
    UNION { [1..k -> {[Name |-> i, thermal |-> b] : i \in 1..MaxChassis, b \in BOOLEAN}]
            : k \in 0..MaxChassis }

ChassisResponses ==
    { l \in ChassisLists : \A i \in DOMAIN l : l[i].Name = i }

\* the two loops that copy therm.Temperatures and therm.Fans into data
ConvertThermal(therm) ==
    [Temperatures |->
        [i \in DOMAIN therm.Temperatures |->
            [Name |-> therm.Temperatures[i].Name,
             ReadingCelsius |-> therm.Temperatures[i].ReadingCelsius,
             Status |-> [Health |-> therm.Temperatures[i].Status.Health]]],
     Fans |->
        [i \in DOMAIN therm.Fans |->
            [Name |-> therm.Fans[i].Name,
             Reading |-> therm.Fans[i].Reading,
             Status |-> [Health |-> therm.Fans[i].Status.Health]]]]

\* the output of redfishtool: text that is no JSON, or a JSON object given by
\* its members; a member is an array of readings or a value of another type
JsonArray(items) == [type |-> "array", items |-> items]

JsonString == [type |-> "string"]

NoOutput == [valid |-> FALSE, members |-> [k \in {} |-> JsonString]]

ToolOutputs ==
    { NoOutput,
      [valid |-> TRUE,
       members |-> [k \in {"Temperatures", "Fans"} |->
                      IF k = "Temperatures"
                      THEN JsonArray(ThermalOf(1).Temperatures)
                      ELSE JsonArray(ThermalOf(1).Fans)]],
      [valid |-> TRUE,
       members |-> [k \in {"Temperatures"} |-> JsonArray(ThermalOf(2).Temperatures)]],
      [valid |-> TRUE,
       members |-> [k \in {"Temperatures", "Fans"} |->
                      IF k = "Temperatures"
                      THEN JsonArray(ThermalOf(2).Temperatures)
                      ELSE JsonString]] }

\* json.Unmarshal(output, &data) reports an error
UnmarshalFails(out) ==
    \/ ~out.valid
    \/ \E k \in DOMAIN out.members \cap {"Temperatures", "Fans"} :
          out.members[k].type # "array"

\* one member of the object decoded into a slice of ThermalData: an absent
\* member, or one of another type, leaves the slice nil
DecodeMember(out, k) ==
    IF out.valid /\ k \in DOMAIN out.members /\ out.members[k].type = "array"
    THEN out.members[k].items
    ELSE <<>>

\* what json.Unmarshal leaves in data, with or without an error
Unmarshal(out) ==
    [Temperatures |-> DecodeMember(out, "Temperatures"),
     Fans |-> DecodeMember(out, "Fans")]

\* c.temperature.Reset() and the loop over c.cache.Temperatures
RECURSIVE PopulateTemperatures(_, _)
PopulateTemperatures(v, temps) ==
    IF temps = <<>> THEN v
    ELSE PopulateTemperatures(
            GaugeSet(v, "temperature",
                     <<Head(temps).Name, "temperature", Target, Head(temps).Status.Health>>,
                     Head(temps).ReadingCelsius),
            Tail(temps))

\* c.fanSpeed.Reset() and the loop over c.cache.Fans
RECURSIVE PopulateFans(_, _)
PopulateFans(v, fans) ==
    IF fans = <<>> THEN v
    ELSE PopulateFans(
            GaugeSet(v, "fanSpeed",
                     <<Head(fans).Name, "fan", Target, Head(fans).Status.Health>>,
                     Head(fans).Reading),
            Tail(fans))

\* the series a scrape of a cache holding the ThermalData d is to emit
ThermalSeriesOf(d) ==
    PopulateFans(PopulateTemperatures([i \in ThermalInstruments |-> EmptyVec],
                                      d.Temperatures), d.Fans)

ThermalIdle ==
    /\ tcache = ZeroThermalData
    /\ tmutex = Unlocked
    /\ tvec = [i \in ThermalInstruments |-> EmptyVec]
    /\ ttickerC = FALSE
    /\ tpc = "fetch"
    /\ tchass = <<>>
    /\ toutput = NoOutput
    /\ tdata = ZeroThermalData
    /\ tcycles = 0
    /\ tcalls = <<>>
    /\ tdone = <<>>
    /\ twaits = 0
    /\ tfailed = FALSE
    /\ tbefore = ZeroThermalData
    /\ tgen = 0
    /\ tspc = [s \in Scrapers |-> "idle"]
    /\ temitted = [s \in Scrapers |-> NoEmission]

ThermalScraperVars == <<tspc, temitted>>

\* an error that fetch does not act on
ErrIgnored(err) == FALSE

\* gofish fetch: if err != nil { log.Printf(...); return }
GofishReturns(err) == err

\* redfishtool fetch: if err != nil { return }
ToolReturns(err) == err

\* ---- gofish variant: run and fetch ----

\* run calls fetch; client, err := gofish.Connect(cfg)
GofishConnect ==
    /\ tvariant = "gofish"
    /\ tpc = "fetch"
    /\ tcycles < MaxCycles
    /\ tcycles' = tcycles + 1
    /\ tcalls' = <<"Connect">>
    /\ tdone' = <<>>
    /\ twaits' = twaits
    /\ tbefore' = tcache
    /\ \E err \in BOOLEAN :
        /\ tpc' = IF GofishReturns(err) THEN "tick" ELSE "chassis"
        /\ tfailed' = err
    /\ UNCHANGED <<tvariant, tcache, tmutex, tvec, ttickerC, tchass, toutput, tdata,
                   tgen, ThermalScraperVars>>

\* chass, err := service.Chassis()
GofishChassis ==
    /\ tpc = "chassis"
    /\ \/ \E l \in ChassisResponses :
            /\ tchass' = l
            /\ tfailed' = tfailed
            /\ tpc' = IF GofishReturns(FALSE) THEN "logout" ELSE "loop"
       \/ /\ tchass' = <<>>
          /\ tfailed' = TRUE
          /\ tpc' = IF GofishReturns(TRUE) THEN "logout" ELSE "loop"
    /\ tcalls' = Append(tcalls, "Chassis")
    /\ tdone' = tdone
    /\ UNCHANGED <<tvariant, tcache, tmutex, tvec, ttickerC, toutput, tdata, tcycles, twaits,
                   tbefore, tgen, ThermalScraperVars>>

\* a loop that a chassis without thermal data ends: return instead of continue
GofishThermalProbeReturns ==
    /\ tpc = "loop"
    /\ tchass # <<>>
    /\ \/ /\ ~Head(tchass).thermal
          /\ tchass' = tchass
          /\ tpc' = "logout"
       \/ /\ Head(tchass).thermal
          /\ \E ok \in BOOLEAN :
                IF ok THEN tchass' = tchass /\ tpc' = "thermal"
                      ELSE tchass' = tchass /\ tpc' = "logout"
    /\ tcalls' = Append(tcalls, "Thermal")
    /\ tdone' = tdone
    /\ UNCHANGED <<tvariant, tcache, tmutex, tvec, ttickerC, toutput, tdata, tcycles, twaits,
                   tfailed, tbefore, tgen, ThermalScraperVars>>

\* if therm, err := ch.Thermal(); err != nil || therm == nil { continue }
GofishThermalProbe ==
    /\ tpc = "loop"
    /\ tchass # <<>>
    /\ \/ /\ ~Head(tchass).thermal          \* no Thermal resource: nil, nil
          /\ tchass' = Tail(tchass)
          /\ tpc' = "loop"
       \/ /\ Head(tchass).thermal
          /\ \E ok \in BOOLEAN :
                IF ok THEN tchass' = tchass /\ tpc' = "thermal"
                      ELSE tchass' = Tail(tchass) /\ tpc' = "loop"
    /\ tcalls' = Append(tcalls, "Thermal")
    /\ tdone' = tdone
    /\ UNCHANGED <<tvariant, tcache, tmutex, tvec, ttickerC, toutput, tdata, tcycles, twaits,
                   tfailed, tbefore, tgen, ThermalScraperVars>>

\* therm, err := ch.Thermal(); on an error continue, else build data
GofishThermal ==
    /\ tpc = "thermal"
    /\ \E ok \in BOOLEAN :
          IF ok
          THEN /\ tdata' = ConvertThermal(ThermalOf(Head(tchass).Name))
               /\ tchass' = tchass
               /\ tpc' = "lock"
               /\ tdone' = Append(tdone, Head(tchass).Name)
          ELSE /\ tdata' = tdata
               /\ tchass' = Tail(tchass)
               /\ tpc' = "loop"
               /\ tdone' = tdone
    /\ tcalls' = Append(tcalls, "Thermal")
    /\ UNCHANGED <<tvariant, tcache, tmutex, tvec, ttickerC, toutput, tcycles, twaits,
                   tfailed, tbefore, tgen, ThermalScraperVars>>

\* the loop over chass has ended
GofishLoopEnd ==
    /\ tpc = "loop"
    /\ tchass = <<>>
    /\ tpc' = "logout"
    /\ UNCHANGED <<tvariant, tcache, tmutex, tvec, ttickerC, tchass, toutput, tdata,
                   tcycles, tcalls, tdone, twaits, tfailed, tbefore, tgen, ThermalScraperVars>>

\* defer client.Logout(), and fetch returns
GofishLogout ==
    /\ tpc = "logout"
    /\ tpc' = "tick"
    /\ tcalls' = Append(tcalls, "Logout")
    /\ tdone' = tdone
    /\ UNCHANGED <<tvariant, tcache, tmutex, tvec, ttickerC, tchass, toutput, tdata,
                   tcycles, twaits, tfailed, tbefore, tgen, ThermalScraperVars>>

\* ---- redfishtool variant: run and fetch ----

\* run calls fetch; output, err := cmd.Output()
ToolExec ==
    /\ tvariant = "redfishtool"
    /\ tpc = "fetch"
    /\ tcycles < MaxCycles
    /\ tcycles' = tcycles + 1
    /\ tcalls' = <<"redfishtool">>
    /\ tdone' = <<>>
    /\ twaits' = twaits
    /\ tbefore' = tcache
    /\ \/ \E out \in ToolOutputs :
            /\ toutput' = out
            /\ tfailed' = FALSE
            /\ tpc' = IF ToolReturns(FALSE) THEN "tick" ELSE "unmarshal"
       \/ /\ toutput' = NoOutput
          /\ tfailed' = TRUE
          /\ tpc' = IF ToolReturns(TRUE) THEN "tick" ELSE "unmarshal"
    /\ UNCHANGED <<tvariant, tcache, tmutex, tvec, ttickerC, tchass, tdata, tgen,
                   ThermalScraperVars>>

\* if err := json.Unmarshal(output, &data); err != nil { return }
ToolUnmarshal ==
    /\ tpc = "unmarshal"
    /\ tfailed' = (tfailed \/ UnmarshalFails(toutput))
    /\ tdata' = Unmarshal(toutput)
    /\ tpc' = IF ToolReturns(UnmarshalFails(toutput)) THEN "tick" ELSE "lock"
    /\ UNCHANGED <<tvariant, tcache, tmutex, tvec, ttickerC, tchass, toutput, tcycles, tcalls, tdone, twaits,
                   tbefore, tgen, ThermalScraperVars>>

\* ---- both variants ----

\* c.mutex.Lock()
ThermalLock ==
    /\ tpc = "lock"
    /\ CanLock(tmutex)
    /\ tmutex' = RefreshLoop
    /\ tpc' = "write"
    /\ tcalls' = Append(tcalls, "Lock")
    /\ tdone' = tdone
    /\ UNCHANGED <<tvariant, tcache, tvec, ttickerC, tchass, toutput, tdata, tcycles, twaits,
                   tfailed, tbefore, tgen, ThermalScraperVars>>

\* a gofish fetch that keeps the mutex while it goes on to the next chassis
ThermalWriteKeepsLock ==
    /\ tpc = "write"
    /\ tcache' = tdata
    /\ tgen' = tgen + 1
    /\ IF tvariant = "gofish"
       THEN tchass' = Tail(tchass) /\ tpc' = "loop" /\ tmutex' = tmutex
       ELSE tchass' = tchass /\ tpc' = "tick" /\ tmutex' = Unlocked
    /\ UNCHANGED <<tvariant, tvec, ttickerC, toutput, tdata, tcycles, tcalls, tdone, twaits,
                   tfailed, tbefore, ThermalScraperVars>>

\* c.cache = data; c.mutex.Unlock(); gofish: on to the next chassis
ThermalWrite ==
    /\ tpc = "write"
    /\ tcache' = tdata
    /\ tgen' = tgen + 1
    /\ tmutex' = Unlocked
    /\ IF tvariant = "gofish"
       THEN tchass' = Tail(tchass) /\ tpc' = "loop"
       ELSE tchass' = tchass /\ tpc' = "tick"
    /\ UNCHANGED <<tvariant, tvec, ttickerC, toutput, tdata, tcycles, tcalls, tdone, twaits, tfailed, tbefore,
                   ThermalScraperVars>>

\* run: <-ticker.C
ThermalRunWait ==
    /\ tpc = "tick"
    /\ ttickerC
    /\ ttickerC' = FALSE
    /\ tpc' = "fetch"
    /\ twaits' = twaits + 1
    /\ UNCHANGED <<tvariant, tcache, tmutex, tvec, tchass, toutput, tdata, tcycles, tcalls, tdone,
                   tfailed, tbefore, tgen, ThermalScraperVars>>

\* the ticker fires
ThermalTick ==
    /\ ~ttickerC
    /\ ttickerC' = TRUE
    /\ UNCHANGED <<tvariant, tcache, tmutex, tvec, tpc, tchass, toutput, tdata,
                   tcycles, tcalls, tdone, twaits, tfailed, tbefore, tgen, ThermalScraperVars>>

\* ---- ThermalCollector.Collect, called by scrape handler s ----

ThermalFetchVars ==
    <<tvariant, tpc, tchass, toutput, tdata, tcycles, tcalls, tdone, twaits, tfailed, tbefore,
      tgen>>

\* c.mutex.Lock()
ThermalCollectLock(s) ==
    /\ tspc[s] = "idle"
    /\ CanLock(tmutex)
    /\ tmutex' = s
    /\ tspc' = [tspc EXCEPT ![s] = "temperatures"]
    /\ UNCHANGED <<tcache, tvec, ttickerC, ThermalFetchVars, temitted>>

\* c.temperature.Reset() and the loop over c.cache.Temperatures
ThermalCollectTemperatures(s) ==
    /\ tspc[s] = "temperatures"
    /\ tvec' = PopulateTemperatures([tvec EXCEPT !["temperature"] = EmptyVec],
                                    tcache.Temperatures)
    /\ tspc' = [tspc EXCEPT ![s] = "fans"]
    /\ UNCHANGED <<tcache, tmutex, ttickerC, ThermalFetchVars, temitted>>

\* c.fanSpeed.Reset() and the loop over c.cache.Fans
ThermalCollectFans(s) ==
    /\ tspc[s] = "fans"
    /\ tvec' = PopulateFans([tvec EXCEPT !["fanSpeed"] = EmptyVec], tcache.Fans)
    /\ tspc' = [tspc EXCEPT ![s] = "emit"]
    /\ UNCHANGED <<tcache, tmutex, ttickerC, ThermalFetchVars, temitted>>

\* c.temperature.Collect(ch); c.fanSpeed.Collect(ch)
ThermalCollectEmit(s) ==
    /\ tspc[s] = "emit"
    /\ temitted' = [temitted EXCEPT ![s] = tvec]
    /\ tspc' = [tspc EXCEPT ![s] = "emitted"]
    /\ UNCHANGED <<tcache, tmutex, tvec, ttickerC, ThermalFetchVars>>

\* Collect returns: the deferred c.mutex.Unlock()
ThermalCollectReturn(s) ==
    /\ tspc[s] = "emitted"
    /\ tmutex' = Unlocked
    /\ tspc' = [tspc EXCEPT ![s] = "idle"]
    /\ temitted' = [temitted EXCEPT ![s] = NoEmission]
    /\ UNCHANGED <<tcache, tvec, ttickerC, ThermalFetchVars>>

\* ------------------------------------------------------------------------
\* func main: configuration, validation, wiring
\* ------------------------------------------------------------------------

\* type Config before initConfig has filled it
ZeroConfig ==
    [ListenAddr |-> "", RedfishTarget |-> "", RedfishUser |-> "", RedfishPass |-> "",
     UniFiURL |-> "", UniFiUser |-> "", UniFiPass |-> ""]

\* what initConfig may return: each setting given by flag or environment,
\* or left at its default ("" but for the listen address)
Configs ==
    [ListenAddr : {":9100"},
     RedfishTarget : {"", Target},
     RedfishUser : {"", "root"},
     RedfishPass : {"", "calvin"},
     UniFiURL : {"", "https://unifi.example.com"},
     UniFiUser : {"", "admin"},
     UniFiPass : {"", "secret"}]

\* the condition of main's "Validate config" test
ConfigRejected(c) == c.RedfishTarget = "" \/ c.UniFiURL = ""

MainIdle ==
    /\ mpc = "initConfig"
    /\ cfg = ZeroConfig
    /\ mexit = ""
    /\ registered = {}

\* cfg := initConfig()
InitConfig ==
    /\ mpc = "initConfig"
    /\ \E c \in Configs : cfg' = c
    /\ mpc' = "validate"
    /\ UNCHANGED <<mexit, registered>>

\* if cfg.RedfishTarget == "" || cfg.UniFiURL == "" { log.Fatalln(...) }
ValidateConfig ==
    /\ mpc = "validate"
    /\ IF ConfigRejected(cfg)
       THEN mpc' = "exit" /\ mexit' = "config"
       ELSE mpc' = "newUnifi" /\ mexit' = mexit
    /\ UNCHANGED <<cfg, registered>>

\* client, err := unifi.NewUnifi(&c); if err != nil { log.Fatalln(...) }
NewUnifi ==
    /\ mpc = "newUnifi"
    /\ \E err \in BOOLEAN :
          IF err THEN mpc' = "exit" /\ mexit' = "client"
                 ELSE mpc' = "register" /\ mexit' = mexit
    /\ UNCHANGED <<cfg, registered>>

\* the two constructors and prometheus.MustRegister(thermalCollector, unifiCollector)
RegisterCollectors ==
    /\ mpc = "register"
    /\ registered' = {"thermalCollector", "unifiCollector"}
    /\ mpc' = "serve"
    /\ UNCHANGED <<cfg, mexit>>

\* log.Fatal(http.ListenAndServe(cfg.ListenAddr, nil)): it returns on an error
ListenAndServe ==
    /\ mpc = "serve"
    /\ mpc' = "exit"
    /\ mexit' = "listen"
    /\ UNCHANGED <<cfg, registered>>

\* ------------------------------------------------------------------------
\* Specifications
\* ------------------------------------------------------------------------

Init == UniFiInit /\ ThermalIdle /\ tvariant = "gofish" /\ MainIdle

Next ==
    \/ FetchProbe /\ UNCHANGED <<tvars, mvars>>
    \/ FetchLogin /\ UNCHANGED <<tvars, mvars>>
    \/ FetchGetSites /\ UNCHANGED <<tvars, mvars>>
    \/ FetchGetClients /\ UNCHANGED <<tvars, mvars>>
    \/ FetchGetDevices /\ UNCHANGED <<tvars, mvars>>
    \/ FetchLock /\ UNCHANGED <<tvars, mvars>>
    \/ FetchWrite /\ UNCHANGED <<tvars, mvars>>
    \/ RunWait /\ UNCHANGED <<tvars, mvars>>
    \/ Tick /\ UNCHANGED <<tvars, mvars>>
    \/ \E s \in Scrapers : CollectLock(s) /\ UNCHANGED <<tvars, mvars>>
    \/ \E s \in Scrapers : CollectReset(s) /\ UNCHANGED <<tvars, mvars>>
    \/ \E s \in Scrapers : CollectAllUDMs(s) /\ UNCHANGED <<tvars, mvars>>
    \/ \E s \in Scrapers : CollectAllUSGs(s) /\ UNCHANGED <<tvars, mvars>>
    \/ \E s \in Scrapers : CollectAllUSWs(s) /\ UNCHANGED <<tvars, mvars>>
    \/ \E s \in Scrapers : CollectAllUAPs(s) /\ UNCHANGED <<tvars, mvars>>
    \/ \E s \in Scrapers : CollectPopulate(s) /\ UNCHANGED <<tvars, mvars>>
    \/ \E s \in Scrapers : CollectEmit(s) /\ UNCHANGED <<tvars, mvars>>
    \/ \E s \in Scrapers : CollectReturn(s) /\ UNCHANGED <<tvars, mvars>>

\* the UniFi collector with its refresh loop and its scrape handlers
Spec == Init /\ [][Next]_vars

\* a step of the goroutine of run other than the wait for the mutex; every
\* client call is taken to return
RunStep ==
    \/ FetchProbe \/ FetchLogin \/ FetchGetSites \/ FetchGetClients
    \/ FetchGetDevices \/ FetchWrite \/ RunWait

\* a step of the Collect call of scrape handler s once it holds the mutex
CollectBody(s) ==
    \/ CollectReset(s) \/ CollectAllUDMs(s) \/ CollectAllUSGs(s)
    \/ CollectAllUSWs(s) \/ CollectAllUAPs(s) \/ CollectPopulate(s)
    \/ CollectEmit(s) \/ CollectReturn(s)

\* the Go scheduler lets every runnable goroutine run, sync.Mutex hands the
\* mutex to a goroutine that keeps waiting for it, and the ticker keeps firing
Fairness ==
    /\ WF_vars(RunStep /\ UNCHANGED <<tvars, mvars>>)
    /\ SF_vars(FetchLock /\ UNCHANGED <<tvars, mvars>>)
    /\ WF_vars(Tick /\ UNCHANGED <<tvars, mvars>>)
    /\ \A s \in Scrapers : WF_vars(CollectBody(s) /\ UNCHANGED <<tvars, mvars>>)

\* the UniFi collector under a fair scheduler and a running ticker
SpecLive == Init /\ [][Next]_vars /\ Fairness

ThermalInit ==
    UniFiInit /\ ThermalIdle /\ tvariant \in {"gofish", "redfishtool"} /\ MainIdle

ThermalNext ==
    \/ GofishConnect /\ UNCHANGED <<uvars, mvars>>
    \/ GofishChassis /\ UNCHANGED <<uvars, mvars>>
    \/ GofishThermalProbe /\ UNCHANGED <<uvars, mvars>>
    \/ GofishThermal /\ UNCHANGED <<uvars, mvars>>
    \/ GofishLoopEnd /\ UNCHANGED <<uvars, mvars>>
    \/ GofishLogout /\ UNCHANGED <<uvars, mvars>>
    \/ ToolExec /\ UNCHANGED <<uvars, mvars>>
    \/ ToolUnmarshal /\ UNCHANGED <<uvars, mvars>>
    \/ ThermalLock /\ UNCHANGED <<uvars, mvars>>
    \/ ThermalWrite /\ UNCHANGED <<uvars, mvars>>
    \/ ThermalRunWait /\ UNCHANGED <<uvars, mvars>>
    \/ ThermalTick /\ UNCHANGED <<uvars, mvars>>
    \/ \E s \in Scrapers : ThermalCollectLock(s) /\ UNCHANGED <<uvars, mvars>>
    \/ \E s \in Scrapers : ThermalCollectTemperatures(s) /\ UNCHANGED <<uvars, mvars>>
    \/ \E s \in Scrapers : ThermalCollectFans(s) /\ UNCHANGED <<uvars, mvars>>
    \/ \E s \in Scrapers : ThermalCollectEmit(s) /\ UNCHANGED <<uvars, mvars>>
    \/ \E s \in Scrapers : ThermalCollectReturn(s) /\ UNCHANGED <<uvars, mvars>>

\* a thermal collector, of either variant, with its refresh loop and its
\* scrape handlers
SpecThermal == ThermalInit /\ [][ThermalNext]_vars

MainNext ==
    \/ InitConfig /\ UNCHANGED <<uvars, tvars>>
    \/ ValidateConfig /\ UNCHANGED <<uvars, tvars>>
    \/ NewUnifi /\ UNCHANGED <<uvars, tvars>>
    \/ RegisterCollectors /\ UNCHANGED <<uvars, tvars>>
    \/ ListenAndServe /\ UNCHANGED <<uvars, tvars>>

\* func main from its first statement to the end of the process
SpecMain == Init /\ [][MainNext]_vars

\* ------------------------------------------------------------------------
\* Properties
\* ------------------------------------------------------------------------

\* the adapters of the devices the cache holds, in the order of All
CacheDevices == All(cache.Devices)

\* scrape handler s has sent its series and has not yet returned
Emitted(s) == spc[s] = "emitted"

\* C1: whenever a client call of a refresh cycle returned an error (the probe
\* GetSites, the second GetSites, GetClients or GetDevices), the cycle leaves
\* the cache as it found it: no step of such a cycle changes the cache.
C1_FailedCycleKeepsCache ==
    [][failedCalls \cap {"probe", "sites", "clients", "devices"} # {}
          => cache' = cache]_vars

\* C2: every Collect derives what it emits from one snapshot: its four reads
\* of the cache meet the same cache generation, the device list it assembled
\* is the list of the cache as it stands (the initial cache or one written by
\* a single fetch), and the series it sends are those of that list alone.
C2_CollectReadsOneSnapshot ==
    \A s \in Scrapers :
        /\ spc[s] \in {"populate", "emit", "emitted"}
              => /\ Cardinality(sgens[s]) = 1
                 /\ sall[s] = CacheDevices
        /\ Emitted(s)
              => semitted[s] =
                    Emit(Populate([i \in Instruments |-> EmptyVec], sall[s]))

\* a Collect has emitted the series of a written snapshot while the refresh
\* loop, holding another snapshot, waits for the mutex
C2_Witness ==
    \E s \in Scrapers :
        /\ Emitted(s)
        /\ gen >= 1
        /\ semitted[s]["deviceTemp"] # EmptyVec
        /\ fpc = "lock"
        /\ snapshot.Devices # cache.Devices

\* (site, address, name): what identifies a device in every label tuple
DevKey(l) == <<l[2], l[3], l[4]>>

\* a device with its port name and port index
PortKey(l) == <<l[2], l[3], l[4], l[5], l[6]>>

CacheDevKeys == { <<Site(a), IP(a), Name(a)>> : a \in Range(CacheDevices) }

PortTableOf(a) == IF a.kind \in {"usw", "udm"} THEN a.dev.PortTable ELSE <<>>

CachePortKeys ==
    UNION { { <<Site(a), IP(a), Name(a), PortTableOf(a)[i].Name,
                PortTableOf(a)[i].PortIdx.Txt>> : i \in DOMAIN PortTableOf(a) }
            : a \in Range(CacheDevices) }

\* the label tuples of all the series of an emission
LabelsOf(e) == UNION { DOMAIN e[i] : i \in DOMAIN e }

\* C3: reset before repopulate: a device, or a port, that the instruments
\* carried when Collect began (the previous Collect emitted it) and that the
\* cache no longer holds has no series in what this Collect emits, whatever
\* the instrument.
C3_GoneDeviceNotEmitted ==
    \A s \in Scrapers :
        Emitted(s) =>
            \A l \in LabelsOf(sbefore[s]) :
                /\ DevKey(l) \notin CacheDevKeys
                      => \A m \in LabelsOf(semitted[s]) : DevKey(m) # DevKey(l)
                /\ (Len(l) > 4 /\ PortKey(l) \notin CachePortKeys)
                      => \A m \in LabelsOf(semitted[s]) :
                            Len(m) > 4 => PortKey(m) # PortKey(l)

\* the previous Collect emitted a device and a port that the cache has lost
\* since, and this Collect has emitted
C3_Witness ==
    \E s \in Scrapers :
        /\ Emitted(s)
        /\ \E l \in LabelsOf(sbefore[s]) : DevKey(l) \notin CacheDevKeys
        /\ \E l \in LabelsOf(sbefore[s]) :
              /\ Len(l) > 4
              /\ DevKey(l) \in CacheDevKeys
              /\ PortKey(l) \notin CachePortKeys
        /\ semitted[s]["deviceTemp"] # EmptyVec

\* C4: no outcome of the client calls is fatal: the goroutine of run never
\* panics, so the process keeps running.
C4_NeverCrashes == ~Crashed

\* the series of the thermal instruments as Collect sends them
ThermalEmitted(s) == tspc[s] = "emitted"

\* C5: thermal collector, both variants: when the fetch fails (connection
\* error, chassis listing error, command error, output that does not decode)
\* the cache is the cache the fetch found, and a Collect emits the series of
\* that cache.
C5_FailedThermalFetchKeepsCache ==
    tfailed =>
        /\ tcache = tbefore
        /\ \A s \in Scrapers :
              ThermalEmitted(s) => temitted[s] = ThermalSeriesOf(tbefore)

\* a fetch has failed over a cache that holds readings, it has returned, and
\* a Collect has emitted since
C5_Witness ==
    /\ tfailed
    /\ tpc = "tick"
    /\ tbefore # ZeroThermalData
    /\ \E s \in Scrapers :
          ThermalEmitted(s) /\ temitted[s]["temperature"] # EmptyVec

\* C6: until the first write of the cache, the cache is the zero value and
\* a Collect emits no series, for every instrument.
C6_EmptyUntilFirstWrite ==
    gen = 0 =>
        /\ cache = [Sites |-> <<>>,
                    Devices |-> [UDMs |-> <<>>, USGs |-> <<>>,
                                 USWs |-> <<>>, UAPs |-> <<>>],
                    Clients |-> <<>>]
        /\ \A s \in Scrapers :
              Emitted(s) =>
                 /\ DOMAIN semitted[s] = Instruments
                 /\ \A i \in Instruments : DOMAIN semitted[s][i] = {}

\* a Collect has emitted before the first write, while a fetch that has
\* devices to publish waits for the mutex
C6_Witness ==
    /\ gen = 0
    /\ fpc = "lock"
    /\ snapshot.Devices.UAPs # <<>>
    /\ \E s \in Scrapers : Emitted(s)

\* the thermal collector's side of C2: what a Collect sends is the series of
\* the sensors and fans of the cache as one write left it
C2_ThermalCollectReadsOneSnapshot ==
    \A s \in Scrapers :
        tspc[s] = "emitted" => temitted[s] = ThermalSeriesOf(tcache)

\* the thermal collector's side of C6
C6_ThermalEmptyUntilFirstWrite ==
    tgen = 0 =>
        /\ tcache = [Temperatures |-> <<>>, Fans |-> <<>>]
        /\ \A s \in Scrapers :
              ThermalEmitted(s) =>
                 \A i \in ThermalInstruments : DOMAIN temitted[s][i] = {}

\* C7: a Collect that acquires the mutex after a cache write has completed
\* reads that snapshot or a later one, never an earlier one, and emits the
\* series of the snapshot the cache then holds and no others.
C7_CollectSeesLatestWrite ==
    \A s \in Scrapers :
        Emitted(s) =>
            /\ \A g \in sgens[s] : slockgen[s] <= g /\ g <= gen
            /\ semitted[s] = SeriesOf(cache.Devices)

\* a Collect that began after the second cache write has emitted its series
C7_Witness ==
    \E s \in Scrapers :
        /\ Emitted(s)
        /\ slockgen[s] >= 2
        /\ failedCalls = {}
        /\ semitted[s]["deviceTemp"] # EmptyVec

\* the label tuple (model, site, address, name) of a device
DeviceTuple(a) == <<Model(a), Site(a), IP(a), Name(a)>>

\* no later device of the cache carries the label tuple of device k
LastOfItsTuple(k) ==
    \A j \in DOMAIN CacheDevices :
        j > k => DeviceTuple(CacheDevices[j]) # DeviceTuple(CacheDevices[k])

\* device k of the cache has a series in deviceTemp, deviceCPU and deviceMem
\* of the emission e, under its label tuple
HasDeviceSeries(e, k) ==
    \A i \in DeviceInstruments : DeviceTuple(CacheDevices[k]) \in DOMAIN e[i]

\* and these series hold the readings of device k
HoldsDeviceReadings(e, k) ==
    LET a == CacheDevices[k]
    IN  /\ e["deviceTemp"][DeviceTuple(a)] = Temperature(a)
        /\ e["deviceCPU"][DeviceTuple(a)] = CPUUsage(a)
        /\ e["deviceMem"][DeviceTuple(a)] = MEMUsage(a)

\* the cache holds the one access point of the test, CPU 10 and Mem 20
TestSnapshot ==
    cache.Devices = [UDMs |-> <<>>, USGs |-> <<>>, USWs |-> <<>>,
                     UAPs |-> <<RawUAP1>>]

CacheDeviceTuples == { DeviceTuple(a) : a \in Range(CacheDevices) }

NonNegative(r) == IF r < 0 THEN 0 ELSE r

\* C10: for each of the four families, CPUUsage() and MEMUsage() are 0 for a
\* negative raw reading and the raw reading otherwise, and no CPU or memory
\* series a Collect emits is negative.
C10_NegativeReadingsAreZero ==
    /\ \A a \in Range(CacheDevices) :
          /\ CPUUsage(a) = NonNegative(a.dev.SystemStats.CPU)
          /\ MEMUsage(a) = NonNegative(a.dev.SystemStats.Mem)
    /\ \A s \in Scrapers :
          Emitted(s) =>
             \A i \in {"deviceCPU", "deviceMem"} :
                \A l \in DOMAIN semitted[s][i] : semitted[s][i][l] >= 0

\* a Collect has emitted a snapshot with negative and positive raw readings
C10_Witness ==
    \E s \in Scrapers :
        /\ Emitted(s)
        /\ \E a \in Range(CacheDevices) :
              /\ a.dev.SystemStats.CPU < 0
              /\ semitted[s]["deviceCPU"][DeviceTuple(a)] = 0
        /\ \E a \in Range(CacheDevices) :
              /\ a.dev.SystemStats.Mem < 0
              /\ semitted[s]["deviceMem"][DeviceTuple(a)] = 0
        /\ \E a \in Range(CacheDevices) :
              /\ a.dev.SystemStats.CPU > 0
              /\ semitted[s]["deviceCPU"][DeviceTuple(a)] = a.dev.SystemStats.CPU

\* the raw record carries a field that speaks of temperature
CarriesTemperatureFields(d) ==
    {"HasTemperature", "GeneralTemperature", "Temperatures"} \cap DOMAIN d # {}

\* C11: a gateway (USG) or an access point (UAP) has HasTemperature() false
\* and Temperature() 0 whatever its raw record holds, temperature fields
\* included, and the temperature series Collect emits for it is 0.
C11_NoTemperatureFamilies ==
    /\ \A a \in Range(CacheDevices) :
          a.kind \in {"usg", "uap"} => ~HasTemperature(a) /\ Temperature(a) = 0
    /\ \A s \in Scrapers :
          Emitted(s) =>
             \A k \in DOMAIN CacheDevices :
                (CacheDevices[k].kind \in {"usg", "uap"} /\ LastOfItsTuple(k))
                   => semitted[s]["deviceTemp"][DeviceTuple(CacheDevices[k])] = 0

\* a Collect has emitted a snapshot that holds a gateway whose record carries
\* temperatures, and the gateway's temperature series is 0
C11_Witness ==
    \E s \in Scrapers :
        /\ Emitted(s)
        /\ \E k \in DOMAIN CacheDevices :
              /\ CacheDevices[k].kind = "usg"
              /\ CarriesTemperatureFields(CacheDevices[k].dev)
              /\ CacheDevices[k].dev.HasTemperature
              /\ CacheDevices[k].dev.Temperatures # <<>>
              /\ semitted[s]["deviceTemp"][DeviceTuple(CacheDevices[k])] = 0

\* the label tuple of the series of a port of device a
PortTuple(a, port) ==
    <<Type(a), Site(a), IP(a), Name(a),
      port.Name, port.PortIdx.Txt, port.Up.Txt, port.IsUplink.Txt>>

\* the (device, port) pairs of the cache: ports of switches and of UDMs
CachePorts ==
    UNION { { <<a, PortTableOf(a)[i]>> : i \in DOMAIN PortTableOf(a) }
            : a \in Range(CacheDevices) }

WithoutNil(list) == SelectSeq(list, LAMBDA x : x # NilPtr)

\* the snapshot d is what the results held by fetch (sites, clients, devices)
\* become when their nil entries are removed
IsResultsWithoutNil(d) ==
    /\ d.Sites = WithoutNil(sites)
    /\ d.Clients = WithoutNil(clients)
    /\ d.Devices.UDMs = WithoutNil(devices.UDMs)
    /\ d.Devices.USGs = WithoutNil(devices.USGs)
    /\ d.Devices.USWs = WithoutNil(devices.USWs)
    /\ d.Devices.UAPs = WithoutNil(devices.UAPs)

\* C13: the snapshot fetch builds, and the cache once fetch has written it,
\* hold the site, client and per-family device lists the client returned
\* with their nil entries removed and the other entries in the order of the
\* raw list; a nil entry does not crash fetch, and Collect emits device
\* series for the devices of the cache only, none for a nil entry.
C13_NilEntriesSkipped ==
    /\ fpc \in {"lock", "write"} => IsResultsWithoutNil(snapshot)
    /\ (fpc = "tick" /\ "login" \notin failedCalls /\ cycles > 0)
          => IsResultsWithoutNil(cache)
    /\ Crashed => devices = NilPtr
    /\ \A s \in Scrapers :
          Emitted(s) =>
             \A i \in DeviceInstruments :
                DOMAIN semitted[s][i] = CacheDeviceTuples

\* fetch has published lists that held nil entries between two devices, in
\* front of a device, and in the site and client lists, and a Collect has
\* emitted the snapshot
C13_Witness ==
    /\ fpc = "tick"
    /\ failedCalls = {}
    /\ devices.UAPs = <<RawUAP1, NilPtr, RawUAP2>>
    /\ devices.USGs = <<NilPtr, RawUSG1>>
    /\ cache.Devices.UAPs = <<RawUAP1, RawUAP2>>
    /\ NilPtr \in Range(sites) /\ NilPtr \in Range(clients)
    /\ \E s \in Scrapers :
          Emitted(s) /\ semitted[s]["deviceTemp"] # EmptyVec

\* the field of usw.Stat.Sw each switch counter is fed from
SwitchCounterField ==
    [swRXPackets |-> "RxPackets", swRXBytes |-> "RxBytes",
     swRXErrors |-> "RxErrors", swRXDropped |-> "RxDropped",
     swTXPackets |-> "TxPackets", swTXBytes |-> "TxBytes",
     swTXErrors |-> "TxErrors", swTXDropped |-> "TxDropped", swBytes |-> "Bytes"]

\* the field of a port each port counter is fed from
PortCounterField ==
    [pRXPackets |-> "RxPackets", pRXBytes |-> "RxBytes",
     pRXErrors |-> "RxErrors", pRXDropped |-> "RxDropped",
     pTXPackets |-> "TxPackets", pTXBytes |-> "TxBytes",
     pTXErrors |-> "TxErrors", pTXDropped |-> "TxDropped"]

C15_PortTupleExtendsDeviceTuple ==
    \A s \in Scrapers :
        Emitted(s) =>
            \A i \in PortInstruments :
                \A l \in DOMAIN semitted[s][i] :
                    /\ \E dp \in CachePorts :
                          l = DeviceTuple(dp[1]) \o
                                <<dp[2].Name, dp[2].PortIdx.Txt,
                                  dp[2].Up.Txt, dp[2].IsUplink.Txt>>
                    /\ \A j \in DeviceInstruments :
                          SubSeq(l, 1, 4) \in DOMAIN semitted[s][j]

\* a step of a Collect call: some scrape handler moves
CollectStep == spc' # spc

\* C16: no step of Collect changes the cache, and a Collect that follows
\* another with no cache write in between (the instruments it found had been
\* filled from the generation of the cache it reads) emits exactly the
\* series and values the other left.
C16_CollectKeepsCache ==
    /\ [][CollectStep => cache' = cache]_vars
    /\ [](\A s \in Scrapers :
            (Emitted(s) /\ sbeforegen[s] = gen) => semitted[s] = sbefore[s])

\* a Collect has emitted switch and port series over a cache that an
\* earlier Collect had already emitted, with no write in between
C16_Witness ==
    \E s \in Scrapers :
        /\ Emitted(s)
        /\ sbeforegen[s] = gen
        /\ gen >= 1
        /\ semitted[s]["swBytes"] # EmptyVec
        /\ semitted[s]["pSFPTemp"] # EmptyVec

\* the thermal collector's side of C16: no step of its Collect changes its
\* cache
C16_ThermalCollectKeepsCache == [][tspc' # tspc => tcache' = tcache]_vars

\* the Login of the current cycle has returned an error
LoginFailed == "login" \in failedCalls

\* C17: when the probe GetSites and then Login fail, fetch returns the login
\* error to run having made these two calls and no other, none of its results
\* has been assigned, and no step taken while fetch stood at the probe or at
\* the login, nor any step of the same cycle after the login error, changes
\* the cache.
C17_LoginFailureAbortsCycle ==
    /\ [](LoginFailed =>
            /\ fpc \in {"tick", "probe"}
            /\ ferr = "login error"
            /\ calls = <<"GetSites", "Login">>
            /\ "probe" \in failedCalls
            /\ sites = <<>> /\ clients = <<>>
            /\ devices = Devices(<<>>, <<>>, <<>>, <<>>)
            /\ snapshot = ZeroUnifiData)
    /\ [][(fpc \in {"probe", "login"} \/ (LoginFailed /\ cycles' = cycles))
             => cache' = cache]_vars

\* the login has failed over a cache that holds devices, fetch has returned
\* and a Collect has emitted the devices of that cache
C17_Witness ==
    /\ LoginFailed
    /\ fpc = "tick"
    /\ gen >= 1
    /\ cache.Devices # Devices(<<>>, <<>>, <<>>, <<>>)
    /\ \E s \in Scrapers :
          Emitted(s) /\ semitted[s] = SeriesOf(cache.Devices)
                     /\ semitted[s]["deviceTemp"] # EmptyVec

\* how many times fetch has made the client call c in the current cycle
Called(c) == Cardinality({i \in DOMAIN calls : calls[i] = c})

\* the calls of a cycle that logged in and then fetched
LoginAndRetry == <<"GetSites", "Login", "GetSites", "GetClients", "GetDevices">>

AtLoopHead == fpc = "probe"

\* C19: run calls fetch for the first time without having received a tick,
\* and between the return of each fetch and the next call of fetch it
\* receives exactly one tick from ticker.C, whether fetch returned an error
\* or not: when run is about to call fetch it has received as many ticks as
\* it has made calls, inside a fetch and after it one less, and each receive
\* takes one tick and leads to the next call.
C19_OneTickBetweenFetches ==
    /\ [](/\ AtLoopHead => waits = cycles
          /\ ~AtLoopHead => waits = cycles - 1
          /\ cycles = 0 => (AtLoopHead /\ waits = 0))
    /\ [][waits' # waits =>
             /\ waits' = waits + 1
             /\ fpc = "tick" /\ fpc' = "probe"
             /\ ferr \in {"nil", "login error"}
             /\ tickerC /\ ~tickerC']_vars

\* after a first fetch that returned the login error (nothing was written)
\* and one tick, run is inside its second fetch
C19_Witness ==
    /\ cycles = 2
    /\ waits = 1
    /\ gen = 0
    /\ fpc \in {"sites", "login"}

\* the thermal collector's side of C19
C19_ThermalOneTickBetweenFetches ==
    /\ [](/\ tpc = "fetch" => twaits = tcycles
          /\ tpc # "fetch" => twaits = tcycles - 1)
    /\ [][twaits' # twaits =>
             /\ twaits' = twaits + 1
             /\ tpc = "tick" /\ tpc' = "fetch"
             /\ ttickerC /\ ~ttickerC']_vars

\* fetch is running: run has called it and it has not returned
Fetching == fpc \in {"login", "sites", "clients", "devices", "lock", "write"}

\* run waits for the next tick
Idle == fpc = "tick"

\* C20: under a fair scheduler and a running ticker, every fetch returns to
\* run (Fetching leads to Idle), every cycle short of the bound on cycles is
\* followed by another call of fetch, and a fetch whose calls have all
\* answered writes a new snapshot to the cache.
C20_RefreshLoopRunsForever ==
    /\ Fetching ~> Idle
    /\ \A n \in 1..(MaxCycles - 1) : (Idle /\ cycles = n) ~> (cycles = n + 1)
    /\ \A n \in 0..(MaxCycles - 1) : (fpc = "lock" /\ gen = n) ~> (gen = n + 1)

\* what does hold of the refresh loop: a fetch that does not meet a nil
\* *unifi.Devices returns to run, the loop goes on to its next cycle, and a
\* fetch whose calls have answered writes the cache
C20_LoopRunsUnlessCrashed ==
    /\ Fetching ~> (Idle \/ Crashed)
    /\ \A n \in 1..(MaxCycles - 1) : (Idle /\ cycles = n) ~> (cycles = n + 1)
    /\ \A n \in 0..(MaxCycles - 1) : (fpc = "lock" /\ gen = n) ~> (gen = n + 1)

\* the thermal fetch has made no upstream call after a Lock in this cycle
NoThermalCallAfterLock ==
    \A i, j \in DOMAIN tcalls :
        (i < j /\ tcalls[i] = "Lock") => tcalls[j] = "Lock"

\* the thermal fetch holds the mutex only between its Lock and the cache
\* assignment, it makes no upstream call while it holds it, and Collect makes
\* no upstream call
ThermalLockHeldForWriteOnly ==
    /\ [](tmutex = RefreshLoop =>
            tpc = "write" /\ tcalls[Len(tcalls)] = "Lock")
    /\ [][(tcalls' # tcalls /\ tcalls'[Len(tcalls')] # "Lock")
             => tmutex # RefreshLoop]_vars
    /\ [][tspc' # tspc => tcalls' = tcalls]_vars

\* C21 as stated, thermal source: the mutex is never held during an upstream
\* call, Collect makes no upstream call, and fetch takes the mutex only
\* after all the upstream calls of the cycle have returned.
C21_LockAfterAllCalls ==
    ThermalLockHeldForWriteOnly /\ []NoThermalCallAfterLock

\* C21 amended: the mutex is never held during an upstream call and Collect
\* makes no upstream call; the redfishtool fetch takes the mutex only after
\* its one upstream call has returned, while the gofish fetch takes and
\* releases it once per chassis, after that chassis's Thermal() calls, and
\* goes on to upstream calls (the next chassis, Logout) once it is released.
C21_LockNeverHeldAcrossCalls ==
    /\ ThermalLockHeldForWriteOnly
    /\ [](tvariant = "redfishtool" => NoThermalCallAfterLock)
    /\ [](\A i \in DOMAIN tcalls :
             (tcalls[i] = "Lock" /\ tvariant = "gofish") =>
                i > 1 /\ tcalls[i - 1] = "Thermal")

\* the gofish fetch queries a chassis after it has written the data of
\* another, while a Collect that took the mutex in between has emitted
C21_Witness ==
    /\ tvariant = "gofish"
    /\ Len(tcalls) >= 2
    /\ tcalls[Len(tcalls)] = "Thermal"
    /\ \E i \in DOMAIN tcalls : tcalls[i] = "Lock"
    /\ \E s \in Scrapers :
          tspc[s] = "emitted" /\ temitted[s]["temperature"] # EmptyVec

\* the UniFi collector's side of C21: fetch holds the mutex only for the
\* cache assignment, after GetSites, GetClients and GetDevices have
\* returned, and Collect makes no client call
C21_UniFiLockAfterAllCalls ==
    /\ [](mutex = RefreshLoop =>
            /\ fpc = "write"
            /\ Len(calls) >= 3
            /\ SubSeq(calls, Len(calls) - 2, Len(calls))
                  = <<"GetSites", "GetClients", "GetDevices">>)
    /\ [][calls' # calls => mutex # RefreshLoop]_vars
    /\ [][CollectStep => calls' = calls]_vars

\* scrape handler s is inside Collect, between Lock and the deferred Unlock
InCollect(s) == spc[s] # "idle"

\* C22: Collect calls on one collector do not interleave: a scrape handler
\* inside Collect holds the mutex, so at most one is inside at a time; only
\* its steps change the instruments from Lock to Unlock; and what it emits
\* is the instruments reset and filled from the cache by itself alone.
C22_CollectsDoNotInterleave ==
    /\ [](\A s \in Scrapers :
            /\ InCollect(s) => mutex = s
            /\ Emitted(s) =>
                  semitted[s] =
                     Emit(Populate(resetAll(sbefore[s]), All(cache.Devices))))
    /\ [](\A s, t \in Scrapers : (InCollect(s) /\ InCollect(t)) => s = t)
    /\ [][vec' # vec =>
             \E s \in Scrapers : mutex = s /\ InCollect(s) /\ spc'[s] # spc[s]]_vars

\* a Collect has emitted over instruments another Collect had filled from an
\* earlier snapshot, while the other scrape handler is outside Collect
C22_Witness ==
    \E s \in Scrapers :
        /\ Emitted(s)
        /\ sbefore[s]["deviceTemp"] # EmptyVec
        /\ sbefore[s] # semitted[s]
        /\ semitted[s]["pRXBytes"] # EmptyVec
        /\ \E t \in Scrapers : t # s /\ ~InCollect(t)

\* the thermal collector's side of C22
C22_ThermalCollectsDoNotInterleave ==
    /\ [](\A s, t \in Scrapers :
            /\ tspc[s] # "idle" => tmutex = s
            /\ (tspc[s] # "idle" /\ tspc[t] # "idle") => s = t)
    /\ [][tvec' # tvec =>
             \E s \in Scrapers : tmutex = s /\ tspc'[s] # tspc[s]]_vars

\* the number of times the current fetch has taken the mutex
LocksInCycle == Cardinality({ i \in DOMAIN tcalls : tcalls[i] = "Lock" })

\* the fetch of the current cycle has returned
CycleOver == tpc = "tick"

\* C23: a refresh cycle replaces the cache at most once, by one assignment
\* of the data of the whole cycle: fetch takes the mutex at most once in a
\* cycle, the cache changes only from the snapshot the cycle started with,
\* and what a scrape that began in the first cycle and has not yet returned
\* at its end emitted is the series of the snapshot before the cycle or of
\* the snapshot it ended with.
C23_CacheReplacedOncePerCycle ==
    /\ [](LocksInCycle <= 1)
    /\ [][tcache' # tcache => tcache = tbefore]_vars
    /\ []((tcycles = 1 /\ CycleOver) =>
            \A s \in Scrapers :
                temitted[s] # NoEmission =>
                    temitted[s] \in {ThermalSeriesOf(tbefore), ThermalSeriesOf(tcache)})

\* C23 holds of the fetch that runs redfishtool, which has one assignment
C23_ToolCacheReplacedOncePerCycle ==
    /\ [](tvariant = "redfishtool" => LocksInCycle <= 1)
    /\ [][(tvariant = "redfishtool" /\ tcache' # tcache) =>
             (tcache = tbefore /\ tcache' = tdata /\ tpc' = "tick")]_vars

\* C23 holds of the UniFi fetch: one assignment of the whole UnifiData, the
\* last step of the cycle
C23_UniFiCacheReplacedOncePerCycle ==
    /\ [](gen <= cycles)
    /\ [][cache' # cache =>
             (fpc = "write" /\ fpc' = "tick" /\ cache' = snapshot /\ gen' = gen + 1)]_vars

\* ThermalData d holds every reading of ThermalData e
HoldsReadings(d, e) ==
    /\ \A i \in DOMAIN e.Temperatures :
          \E j \in DOMAIN d.Temperatures : d.Temperatures[j] = e.Temperatures[i]
    /\ \A i \in DOMAIN e.Fans : \E j \in DOMAIN d.Fans : d.Fans[j] = e.Fans[i]

\* C24: after a gofish refresh cycle in which one or more chassis returned
\* thermal data, the cache holds the readings of every one of them.
C24_SnapshotHoldsAllChassis ==
    (tvariant = "gofish" /\ CycleOver) =>
        \A i \in DOMAIN tdone :
            HoldsReadings(tcache, ConvertThermal(ThermalOf(tdone[i])))

\* what the code leaves in the cache: the data of the last chassis that
\* returned thermal data, alone
C24_SnapshotHoldsLastChassis ==
    (tvariant = "gofish" /\ CycleOver /\ tdone # <<>>) =>
        tcache = ConvertThermal(ThermalOf(tdone[Len(tdone)]))

\* a step of the loop over chass that skips the chassis at its head
SkipsChassis ==
    /\ tpc \in {"loop", "thermal"}
    /\ tchass # <<>>
    /\ tcalls' = Append(tcalls, "Thermal")
    /\ tpc' \notin {"thermal", "lock"}

\* C25: a chassis whose thermal query fails or answers nothing is skipped
\* and the cycle goes on: the skip leaves the cache and the data built so
\* far alone and moves to the next chassis, the loop ends only when every
\* chassis has been queried, every chassis that answered had its data
\* assigned to the cache, and at the end of the cycle the cache holds the
\* data of the last chassis that answered, whichever chassis were skipped.
C25_FailedChassisIsSkipped ==
    /\ [][SkipsChassis =>
             /\ tchass' = Tail(tchass)
             /\ tpc' = "loop"
             /\ tcache' = tcache /\ tdone' = tdone /\ tfailed' = tfailed]_vars
    /\ [][(tpc \in {"loop", "thermal", "lock", "write"} /\ tpc' = "logout") =>
             tchass = <<>>]_vars
    /\ [](tvariant = "gofish" /\ CycleOver => LocksInCycle = Len(tdone))
    /\ []C24_SnapshotHoldsLastChassis

\* a cycle over two chassis is over: the first answered and the second was
\* skipped, and the cache holds the data of the first
C25_Witness ==
    /\ tvariant = "gofish"
    /\ CycleOver
    /\ tdone = <<1>>
    /\ Len(tcalls) >= 2
    /\ tcalls[Len(tcalls)] = "Logout"
    /\ tcalls[Len(tcalls) - 1] = "Thermal"
    /\ LocksInCycle = 1
    /\ tcache = ConvertThermal(ThermalOf(1))
    /\ \E i \in DOMAIN tcalls : tcalls[i] = "Lock" /\ tcalls[i + 1] = "Thermal"

\* the first four label values of a series: those of its device
DevicePart(l) == SubSeq(l, 1, 4)

\* C26: the switch counter series a Collect emits are those of the switches
\* (USW) of the snapshot, the port series those of the ports of its switches
\* and of its UDMs, and a gateway (USG) or an access point (UAP) has its
\* three base series and no switch or port series, whatever its record holds.
C26_SeriesByFamily ==
    \A s \in Scrapers :
        Emitted(s) =>
            LET e == semitted[s]
            IN  /\ \A i \in SwitchInstruments : \A l \in DOMAIN e[i] :
                      \E a \in Range(CacheDevices) :
                          a.kind = "usw" /\ l = labelValues(a)
                /\ \A i \in PortInstruments : \A l \in DOMAIN e[i] :
                      \E a \in Range(CacheDevices) :
                          /\ a.kind \in {"usw", "udm"}
                          /\ \E p \in DOMAIN a.dev.PortTable :
                                l = portLabels(labelValues(a), a.dev.PortTable[p])
                /\ \A k \in DOMAIN CacheDevices :
                      CacheDevices[k].kind \in {"usg", "uap"} =>
                          /\ HasDeviceSeries(e, k)
                          /\ \A i \in SwitchInstruments \cup PortInstruments :
                                \A l \in DOMAIN e[i] :
                                    DevicePart(l) # labelValues(CacheDevices[k])

\* a Collect has emitted a snapshot of the four families in which the
\* gateway's record has a port table: there are switch series, port series
\* of the switch and of a UDM, and none of the gateway
C26_Witness ==
    \E s \in Scrapers :
        /\ Emitted(s)
        /\ {a.kind : a \in Range(CacheDevices)} = {"udm", "usg", "usw"}
        /\ \E a \in Range(CacheDevices) :
              a.kind = "usg" /\ "PortTable" \in DOMAIN a.dev /\ a.dev.PortTable # <<>>
        /\ semitted[s]["swBytes"] # EmptyVec
        /\ \E l \in DOMAIN semitted[s]["pRXBytes"] : l[1] = "USW"
        /\ \E l \in DOMAIN semitted[s]["pRXBytes"] : l[1] = "UDM"

\* C27: a device of any family whose HasTemperature() is false has
\* Temperature() 0, and the temperature series a Collect emits for it is 0.
C27_NoTemperatureMeansZero ==
    /\ \A a \in Range(CacheDevices) : ~HasTemperature(a) => Temperature(a) = 0
    /\ \A s \in Scrapers :
          Emitted(s) =>
             \A k \in DOMAIN CacheDevices :
                (~HasTemperature(CacheDevices[k]) /\ LastOfItsTuple(k))
                   => semitted[s]["deviceTemp"][DeviceTuple(CacheDevices[k])] = 0

\* what the code does: the temperature series holds Temperature(), which
\* the UDM and USW adapters read from the record without asking
\* HasTemperature()
C27_TemperatureSeriesHoldsTemperature ==
    \A s \in Scrapers :
        Emitted(s) =>
           \A k \in DOMAIN CacheDevices :
              LET a == CacheDevices[k]
              IN  /\ LastOfItsTuple(k) =>
                        semitted[s]["deviceTemp"][DeviceTuple(a)] = Temperature(a)
                  /\ a.kind = "usw" => Temperature(a) = a.dev.GeneralTemperature
                  /\ a.kind = "udm" =>
                        Temperature(a) = IF a.dev.Temperatures = <<>> THEN 0
                                         ELSE a.dev.Temperatures[1]

\* main has passed its validation of the configuration
PastValidation == mpc \in {"newUnifi", "register", "serve"} \/ mexit \in {"client", "listen"}

\* C28: the validation at startup asks for at least one of the Redfish
\* target and the UniFi URL: main ends the process for its configuration
\* only when neither is set, and goes on when one of them is.
C28_AbortsOnlyWhenNeitherConfigured ==
    /\ mexit = "config" => (cfg.RedfishTarget = "" /\ cfg.UniFiURL = "")
    /\ (mpc # "initConfig" /\ mpc # "validate"
          /\ (cfg.RedfishTarget # "" \/ cfg.UniFiURL # ""))
             => PastValidation

\* what the code does: main goes on only when both are set
C28_AbortsUnlessBothConfigured ==
    /\ PastValidation => (cfg.RedfishTarget # "" /\ cfg.UniFiURL # "")
    /\ mexit = "config" => (cfg.RedfishTarget = "" \/ cfg.UniFiURL = "")
    /\ registered # {} => PastValidation

\* the instruments that carry a series in the instrument state v
Populated(v) == { i \in DOMAIN v : v[i] # EmptyVec }

\* C29: the 22 instruments of the UniFi collector are the same everywhere:
\* resetAll resets them all, the closing Collect(ch) calls send them all,
\* Describe enumerates them all, each list names an instrument once, and
\* every instrument Collect puts a series in is among them; what a Collect
\* emits has exactly the described instruments, each reset and then filled
\* from the snapshot.
C29_SameInstrumentsEverywhere ==
    /\ Range(ResetList) = Instruments
    /\ Range(CollectList) = Instruments
    /\ Range(DescribeList) = Instruments
    /\ Cardinality(Instruments) = 22
    /\ Len(ResetList) = 22 /\ Len(CollectList) = 22 /\ Len(DescribeList) = 22
    /\ Populated(vec) \subseteq Range(ResetList) \cap Range(CollectList)
    /\ \A s \in Scrapers :
          Emitted(s) =>
             /\ DOMAIN semitted[s] = Range(DescribeList)
             /\ Populated(semitted[s]) = Populated(vec)
             /\ \A i \in Instruments :
                   semitted[s][i] =
                      Populate([j \in Instruments |-> EmptyVec], CacheDevices)[i]

\* a Collect over instruments an earlier Collect had filled has emitted a
\* snapshot that puts a series in each of the 22 instruments
C29_Witness ==
    \E s \in Scrapers :
        /\ Emitted(s)
        /\ Populated(sbefore[s]) # {}
        /\ Populated(semitted[s]) = Instruments
        /\ Cardinality(Populated(semitted[s])) = 22

\* the thermal collector's side of C29: two instruments, reset, filled,
\* sent and described
C29_ThermalSameInstruments ==
    /\ Range(ThermalResetList) = ThermalInstruments
    /\ Range(ThermalCollectList) = ThermalInstruments
    /\ Range(ThermalDescribeList) = ThermalInstruments
    /\ Cardinality(ThermalInstruments) = 2
    /\ DOMAIN tvec = ThermalInstruments
    /\ \A s \in Scrapers :
          tspc[s] = "emitted" =>
             /\ DOMAIN temitted[s] = Range(ThermalDescribeList)
             /\ temitted[s] = ThermalSeriesOf(tcache)

====
